---- MODULE Spec2Model ----
(***************************************************************************)
(* Model of superego's incremental evaluation pipeline:                    *)
(*   src/src/evaluate.rs           evaluate_llm, parse_decision_response   *)
(*   src/src/transcript/reader.rs  get_messages_since                      *)
(*   src/src/transcript/types.rs   TranscriptEntry                         *)
(*   src/src/state.rs              State, StateManager                     *)
(*   src/src/feedback.rs           FeedbackQueue                           *)
(*   src/src/decision.rs           Journal                                 *)
(*   src/src/claude.rs             invoke                                  *)
(*                                                                         *)
(* Rust's Option<T> is a sequence of length 0 (None) or 1 (Some(v)).       *)
(* A text is a sequence of tokens; "\n" is the line terminator token.      *)
(***************************************************************************)
EXTENDS Integers, Sequences, FiniteSets, TLC

\* ------------------------------------------------------------------ bounds
\* last instant of the wall clock (in sub-second ticks)
MaxTime == 1
\* most entries the host tool appends to the transcript
MaxEntries == 3
\* sub-second ticks in one second of the journal's file-name resolution
TicksPerSecond == 2
\* most entries of a transcript handed to get_messages_since on its own
MaxSelLen == 2

\* ------------------------------------------------------------------ Option
None == << >>

Some(v) == << v >>

IsSome(o) == Len(o) = 1

Unwrap(o) == o[1]

\* ------------------------------------------------------------------ texts
Whitespace == {" ", "\n"}

\* str::trim_start_matches(set of chars)
RECURSIVE TrimStartMatches(_, _)
TrimStartMatches(s, chars) ==
    IF Len(s) > 0 /\ s[1] \in chars THEN TrimStartMatches(Tail(s), chars) ELSE s

\* str::trim_end_matches(set of chars / a pattern token)
RECURSIVE TrimEndMatches(_, _)
TrimEndMatches(s, chars) ==
    IF Len(s) > 0 /\ s[Len(s)] \in chars
    THEN TrimEndMatches(SubSeq(s, 1, Len(s) - 1), chars)
    ELSE s

\* str::trim
Trim(s) == TrimEndMatches(TrimStartMatches(s, Whitespace), Whitespace)

\* str::lines: split at "\n"; a final empty line is not produced
RECURSIVE LinesFrom(_, _)
LinesFrom(s, cur) ==
    IF Len(s) = 0 THEN (IF Len(cur) = 0 THEN << >> ELSE << cur >>)
    ELSE IF s[1] = "\n" THEN << cur >> \o LinesFrom(Tail(s), << >>)
    ELSE LinesFrom(Tail(s), Append(cur, s[1]))

Lines(s) == LinesFrom(s, << >>)

\* [&str]::join("\n")
RECURSIVE JoinLines(_)
JoinLines(ls) ==
    IF Len(ls) = 0 THEN << >>
    ELSE IF Len(ls) = 1 THEN ls[1]
    ELSE ls[1] \o << "\n" >> \o JoinLines(Tail(ls))

\* str::strip_prefix(token): Some(rest) or None
StripPrefix(s, tok) == IF Len(s) > 0 /\ s[1] = tok THEN Some(Tail(s)) ELSE None

\* char case folding, token by token
UpperTok(t) ==
    CASE t = "allow" -> "ALLOW"
      [] t = "Allow" -> "ALLOW"
      [] t = "block" -> "BLOCK"
      [] t = "Block" -> "BLOCK"
      [] t = "high" -> "HIGH"
      [] t = "medium" -> "MEDIUM"
      [] t = "low" -> "LOW"
      [] t = "no concerns" -> "NO CONCERNS"
      [] t = "No concerns" -> "NO CONCERNS"
      [] OTHER -> t

\* str::to_uppercase
ToUppercase(s) == [i \in 1..Len(s) |-> UpperTok(s[i])]

\* str::eq_ignore_ascii_case
EqIgnoreAsciiCase(a, b) == ToUppercase(a) = ToUppercase(b)

\* ------------------------------------------------------------------ transcript entries
SessionIds == {"s1", "s2"}

\* a timestamp string of a transcript record: RFC 3339 text of instant t, or
\* text that is no RFC 3339 date
Rfc3339(t) == [rfc3339 |-> TRUE, instant |-> t]

Garbage == [rfc3339 |-> FALSE, instant |-> 0]

\* DateTime::parse_from_rfc3339(ts).ok()
ParseFromRfc3339(ts) == IF ts.rfc3339 THEN Some(ts.instant) ELSE None

\* TranscriptEntry::User / Assistant
Message(kind, sid, ts) == [type |-> kind, session_id |-> sid, timestamp |-> ts]

\* TranscriptEntry::Summary, FileHistorySnapshot, Unknown carry neither field
Other(kind) == [type |-> kind, session_id |-> None, timestamp |-> None]

\* TranscriptEntry::session_id
EntrySessionId(e) == IF e.type \in {"user", "assistant"} THEN e.session_id ELSE None

\* TranscriptEntry::timestamp
EntryTimestamp(e) == IF e.type \in {"user", "assistant"} THEN e.timestamp ELSE None

\* TranscriptEntry::is_message
IsMessage(e) == e.type \in {"user", "assistant"}

\* TranscriptEntry::is_summary
IsSummary(e) == e.type = "summary"

\* a session filter that lets entries without a session id through
SessionFilterLenient(e, session_id) ==
    IF IsSome(session_id)
    THEN EntrySessionId(e) = session_id \/ EntrySessionId(e) = None
    ELSE TRUE

\* the session filter closure of get_messages_since
SessionFilter(e, session_id) ==
    IF IsSome(session_id) THEN EntrySessionId(e) = session_id ELSE TRUE

\* a content filter that forgets the assistant's messages
ContentFilterUserOnly(e) == e.type = "user" \/ IsSummary(e)

\* the content filter closure of get_messages_since
ContentFilter(e) == IsMessage(e) \/ IsSummary(e)

\* a cutoff closure that compares with >= in place of >
AfterCutoffInclusive(e, cutoff) ==
    LET ts == EntryTimestamp(e)
        parsed == IF IsSome(ts) THEN ParseFromRfc3339(Unwrap(ts)) ELSE None
    IN  IF IsSome(parsed) THEN Unwrap(parsed) >= cutoff ELSE TRUE

\* the cutoff closure: timestamp after cutoff, or no (parseable) timestamp
AfterCutoff(e, cutoff) ==
    LET ts == EntryTimestamp(e)
        parsed == IF IsSome(ts) THEN ParseFromRfc3339(Unwrap(ts)) ELSE None
    IN  IF IsSome(parsed) THEN Unwrap(parsed) > cutoff ELSE TRUE

\* whether entry e is selected by get_messages_since(_, since, session_id)
Selected(e, since, session_id) ==
    /\ ContentFilter(e)
    /\ SessionFilter(e, session_id)
    /\ (IsSome(since) => AfterCutoff(e, Unwrap(since)))

\* indices i..Len(entries) of the selected entries, in the original order
RECURSIVE SelectFrom(_, _, _, _)
SelectFrom(entries, i, since, session_id) ==
    IF i > Len(entries) THEN << >>
    ELSE (IF Selected(entries[i], since, session_id) THEN << i >> ELSE << >>)
         \o SelectFrom(entries, i + 1, since, session_id)

\* get_messages_since: the references returned, as indices into entries
GetMessagesSince(entries, since, session_id) == SelectFrom(entries, 1, since, session_id)

Range(s) == {s[i] : i \in 1..Len(s)}

\* ------------------------------------------------------------------ parse_decision_response
\* strip_markdown_prefix
StripMarkdownPrefix(line) == Trim(TrimStartMatches(Trim(line), {"#", ">", "*"}))

\* the match on the CONFIDENCE: value
ConfidenceOf(c) ==
    LET v == ToUppercase(Trim(c))
    IN  IF v \in {<< "HIGH" >>, << "MEDIUM" >>, << "LOW" >>} THEN Some(v[1]) ELSE None

\* a lookahead that takes the CONFIDENCE: line out of the body whatever its value
RECURSIVE ConfidenceScanGreedy(_, _, _)
ConfidenceScanGreedy(lines, idx, offset) ==
    IF offset > 3 THEN << None, None >>
    ELSE IF idx + offset > Len(lines) THEN ConfidenceScanGreedy(lines, idx, offset + 1)
    ELSE LET trimmed == Trim(lines[idx + offset])
         IN  IF Len(trimmed) = 0 THEN ConfidenceScanGreedy(lines, idx, offset + 1)
             ELSE LET c == StripPrefix(trimmed, "CONFIDENCE:")
                      conf == IF IsSome(c) THEN ConfidenceOf(Unwrap(c)) ELSE None
                  IN  << conf, IF IsSome(c) THEN Some(idx + offset) ELSE None >>

\* the loop over offset in 1..=3: (confidence, confidence_line_idx)
RECURSIVE ConfidenceScan(_, _, _)
ConfidenceScan(lines, idx, offset) ==
    IF offset > 3 THEN << None, None >>
    ELSE IF idx + offset > Len(lines) THEN ConfidenceScan(lines, idx, offset + 1)
    ELSE LET trimmed == Trim(lines[idx + offset])
         IN  IF Len(trimmed) = 0 THEN ConfidenceScan(lines, idx, offset + 1)
             ELSE LET c == StripPrefix(trimmed, "CONFIDENCE:")
                      conf == IF IsSome(c) THEN ConfidenceOf(Unwrap(c)) ELSE None
                  IN  << conf, IF IsSome(conf) THEN Some(idx + offset) ELSE None >>

\* Iterator::skip_while(|l| l.trim().is_empty())
RECURSIVE SkipBlank(_)
SkipBlank(ls) ==
    IF Len(ls) > 0 /\ Len(Trim(ls[1])) = 0 THEN SkipBlank(Tail(ls)) ELSE ls

\* the token of a code fence (three backticks)
CodeFence == "<fence>"

\* a feedback body that keeps a trailing code fence
FeedbackBodyFenced(lines, start) ==
    Trim(JoinLines(SkipBlank(SubSeq(lines, start, Len(lines)))))

\* the feedback body: lines[start..], leading blank lines skipped, joined,
\* trimmed, trailing code fences removed, trimmed
FeedbackBody(lines, start) ==
    Trim(TrimEndMatches(Trim(JoinLines(SkipBlank(SubSeq(lines, start, Len(lines))))),
                        {CodeFence}))

\* a DECISION: branch that blocks on the BLOCK token alone
DecisionAtLenient(lines, idx, decision_part) ==
    LET decision == ToUppercase(Trim(TrimStartMatches(decision_part, {"*"})))
        scan == ConfidenceScan(lines, idx, 1)
        start == IF IsSome(scan[2]) THEN Unwrap(scan[2]) + 1 ELSE idx + 1
    IN  [has_concerns |-> decision = << "BLOCK" >>,
         feedback |-> FeedbackBody(lines, start),
         confidence |-> scan[1]]

\* the body of the DECISION: search loop once a DECISION: line is found
DecisionAt(lines, idx, decision_part) ==
    LET decision == ToUppercase(Trim(TrimStartMatches(decision_part, {"*"})))
        scan == ConfidenceScan(lines, idx, 1)
        start == IF IsSome(scan[2]) THEN Unwrap(scan[2]) + 1 ELSE idx + 1
    IN  [has_concerns |-> decision # << "ALLOW" >>,
         feedback |-> FeedbackBody(lines, start),
         confidence |-> scan[1]]

\* a legacy fallback that hands back the trimmed text
LegacyFallbackTrimmed(response) ==
    [has_concerns |-> /\ ~EqIgnoreAsciiCase(response, << "no concerns", "." >>)
                      /\ ~EqIgnoreAsciiCase(response, << "no concerns" >>),
     feedback |-> Trim(response),
     confidence |-> None]

\* the legacy fallback, when no line carries DECISION:
LegacyFallback(response) ==
    [has_concerns |-> /\ ~EqIgnoreAsciiCase(response, << "no concerns", "." >>)
                      /\ ~EqIgnoreAsciiCase(response, << "no concerns" >>),
     feedback |-> response,
     confidence |-> None]

\* a search loop in which a later DECISION: line overrides an earlier one
RECURSIVE DecisionScanLast(_, _, _)
DecisionScanLast(response, lines, idx) ==
    IF idx > Len(lines) THEN LegacyFallback(response)
    ELSE LET part == StripPrefix(StripMarkdownPrefix(lines[idx]), "DECISION:")
             later == \E j \in (idx + 1)..Len(lines) :
                          IsSome(StripPrefix(StripMarkdownPrefix(lines[j]), "DECISION:"))
         IN  IF IsSome(part) /\ ~later THEN DecisionAt(lines, idx, Unwrap(part))
             ELSE DecisionScanLast(response, lines, idx + 1)

\* the search loop over the enumerated lines
RECURSIVE DecisionScan(_, _, _)
DecisionScan(response, lines, idx) ==
    IF idx > Len(lines) THEN LegacyFallback(response)
    ELSE LET part == StripPrefix(StripMarkdownPrefix(lines[idx]), "DECISION:")
         IN  IF IsSome(part) THEN DecisionAt(lines, idx, Unwrap(part))
             ELSE DecisionScan(response, lines, idx + 1)

\* parse_decision_response: (has_concerns, feedback, confidence)
ParseDecisionResponse(response) ==
    LET lines == Lines(response)
    IN  IF Len(lines) = 0
        THEN [has_concerns |-> TRUE, feedback |-> response, confidence |-> None]
        ELSE DecisionScan(response, lines, 1)

\* ------------------------------------------------------------------ program state
VARIABLES
    now,            \* the wall clock read by Utc::now(), in ticks
    transcript,     \* the host tool's append-only transcript file
    state_file,     \* state.json of each state directory (None: no file)
    feedback_file,  \* the feedback file of each state directory (None: no file)
    decisions,      \* the decisions/ directory of each state directory
    inv,            \* the invocations of evaluate_llm: position and locals
    hist,           \* history: per entry, whether and how often it was in a window
    call            \* a component run on its own: its arguments, its state, what it returned

vars == << now, transcript, state_file, feedback_file, decisions, inv, hist, call >>

\* the state of the evaluation pipeline
pipeline == << now, transcript, state_file, feedback_file, decisions, inv, hist >>

\* the processes that run evaluate_llm
Procs == {1, 2}

\* one state directory shared by every session
SessionDirShared(session_id) == "root"

\* .superego itself, or .superego/sessions/<sid>
SessionDir(session_id) == IF IsSome(session_id) THEN Unwrap(session_id) ELSE "root"

Dirs == SessionIds \cup {"root"}

\* the session_id argument of evaluate_llm
SessionArgs == {Some(s) : s \in SessionIds} \cup {None}

\* ------------------------------------------------------------------ state.rs
\* State::default
DefaultState == [last_evaluated |-> None, disabled |-> FALSE]

\* State::mark_evaluated_at with the instant of the call in place of the argument
MarkEvaluatedAtCompletion(state, timestamp) == [state EXCEPT !.last_evaluated = Some(now)]

\* State::mark_evaluated_at that never moves the watermark back
MarkEvaluatedAtMonotone(state, timestamp) ==
    [state EXCEPT !.last_evaluated =
        IF IsSome(@) /\ Unwrap(@) > timestamp THEN @ ELSE Some(timestamp)]

\* State::mark_evaluated_at that builds the state anew
MarkEvaluatedAtFresh(state, timestamp) ==
    [last_evaluated |-> Some(timestamp), disabled |-> FALSE]

\* State::mark_evaluated_at
MarkEvaluatedAt(state, timestamp) == [state EXCEPT !.last_evaluated = Some(timestamp)]

\* JSON of a State whose watermark is cut to full seconds
ToJsonSeconds(state) ==
    [last_evaluated |-> IF IsSome(state.last_evaluated)
                          THEN Some([secs |-> Unwrap(state.last_evaluated) \div TicksPerSecond,
                                     subsec |-> 0])
                          ELSE None,
     disabled |-> state.disabled]

\* serde_json::to_writer_pretty(writer, state): null or the RFC 3339 text of
\* the watermark with its sub-second digits, and the flag
ToJson(state) ==
    [last_evaluated |-> IF IsSome(state.last_evaluated)
                          THEN Some([secs |-> Unwrap(state.last_evaluated) \div TicksPerSecond,
                                     subsec |-> Unwrap(state.last_evaluated) % TicksPerSecond])
                          ELSE None,
     disabled |-> state.disabled]

\* serde_json::from_reader(reader)
FromJson(json) ==
    [last_evaluated |-> IF IsSome(json.last_evaluated)
                          THEN Some(Unwrap(json.last_evaluated).secs * TicksPerSecond
                                    + Unwrap(json.last_evaluated).subsec)
                          ELSE None,
     disabled |-> json.disabled]

\* the content StateManager::save leaves in state.json
Save(state) == Some([valid |-> TRUE, json |-> ToJson(state)])

\* StateManager::load: Ok(default) without a file, Err on a file that is no State
Load(file) ==
    IF ~IsSome(file) THEN [ok |-> TRUE, state |-> DefaultState]
    ELSE IF Unwrap(file).valid THEN [ok |-> TRUE, state |-> FromJson(Unwrap(file).json)]
    ELSE [ok |-> FALSE, state |-> DefaultState]

\* state_mgr.load().unwrap_or_default()
LoadOrDefault(file) == IF Load(file).ok THEN Load(file).state ELSE DefaultState

\* StateManager::update(|s| s.mark_evaluated_at(timestamp)): the file afterwards
Update(file, timestamp) ==
    IF Load(file).ok THEN Save(MarkEvaluatedAt(Load(file).state, timestamp)) ELSE file

\* ------------------------------------------------------------------ feedback.rs
\* FeedbackQueue::has_feedback
HasFeedback(file) == IsSome(file) /\ Len(Unwrap(file)) > 0

\* FeedbackQueue::write: the file afterwards
FeedbackWrite(message) == Some(message)

\* FeedbackQueue::get_and_clear: the value returned and the file afterwards
GetAndClear(file) ==
    IF ~HasFeedback(file) THEN [content |-> None, file |-> file]
    ELSE [content |-> file, file |-> None]

\* ------------------------------------------------------------------ decision.rs
\* Decision::feedback_delivered
FeedbackDelivered(session_id, context) ==
    [timestamp |-> now, session_id |-> session_id, decision_type |-> "feedback_delivered",
     context |-> Some(context), trigger |-> None]

\* DecisionType, by its snake_case name
DecisionTypes ==
    {"phase_transition", "override_granted", "feedback_accepted",
     "precompact_snapshot", "feedback_delivered"}

\* Decision::override_granted
OverrideGranted(session_id, reason) ==
    [timestamp |-> now, session_id |-> session_id, decision_type |-> "override_granted",
     context |-> Some(reason), trigger |-> None]

\* Decision::phase_transition (the phases and the approved scope left out)
PhaseTransition(session_id, trigger) ==
    [timestamp |-> now, session_id |-> session_id, decision_type |-> "phase_transition",
     context |-> None, trigger |-> Some(trigger)]

\* the file name Journal::write formats from the timestamp (%Y-%m-%dT%H-%M-%SZ)
FileName(timestamp) == timestamp \div TicksPerSecond

\* scalars that YAML reads as null when they stand unquoted
YamlNulls == { << >>, << "null" >>, << "~" >> }

\* serde_yaml writes a string: quoted when the plain scalar would read as null
YamlString(text) == [quoted |-> text \in YamlNulls, text |-> text]

\* serde_yaml writes an Option<String>
YamlOption(o) ==
    IF IsSome(o) THEN YamlString(Unwrap(o)) ELSE [quoted |-> FALSE, text |-> << "null" >>]

\* serde_yaml reads an Option<String>
FromYamlOption(y) ==
    IF ~y.quoted /\ y.text \in YamlNulls THEN None ELSE Some(y.text)

\* a timestamp with the seconds truncated away from the sub-second part
ToRfc3339Seconds(timestamp) ==
    [secs |-> timestamp \div TicksPerSecond, subsec |-> 0]

\* chrono writes a DateTime<Utc>: RFC 3339 with the sub-second digits
ToRfc3339(timestamp) ==
    [secs |-> timestamp \div TicksPerSecond, subsec |-> timestamp % TicksPerSecond]

\* chrono reads a DateTime<Utc>
FromRfc3339(text) == text.secs * TicksPerSecond + text.subsec

\* serde_yaml::to_string(decision)
ToYaml(decision) ==
    [kind |-> "yaml",
     timestamp |-> ToRfc3339(decision.timestamp),
     session_id |-> YamlOption(IF IsSome(decision.session_id)
                                 THEN Some(<< Unwrap(decision.session_id) >>) ELSE None),
     type |-> decision.decision_type,
     context |-> YamlOption(decision.context),
     trigger |-> YamlOption(decision.trigger)]

\* text that is no YAML of a Decision
Malformed ==
    [kind |-> "malformed", timestamp |-> ToRfc3339(0),
     session_id |-> YamlOption(None), type |-> "none",
     context |-> YamlOption(None), trigger |-> YamlOption(None)]

\* bytes that are no UTF-8 text
NotUtf8 == [Malformed EXCEPT !.kind = "not_utf8"]

\* serde_yaml::from_str::<Decision>(content): Some(decision) or None for Err
FromYaml(content) ==
    IF content.kind = "yaml" /\ content.type \in DecisionTypes
    THEN LET sid == FromYamlOption(content.session_id)
         IN  Some([timestamp |-> FromRfc3339(content.timestamp),
                   session_id |-> IF IsSome(sid) THEN Some(Unwrap(sid)[1]) ELSE None,
                   decision_type |-> content.type,
                   context |-> FromYamlOption(content.context),
                   trigger |-> FromYamlOption(content.trigger)])
    ELSE None

\* the path of a record file: the formatted timestamp and the extension
RecordPath(timestamp) == [stem |-> FileName(timestamp), ext |-> "yaml"]

\* Journal::write: the decisions directory afterwards (File::create truncates)
JournalWrite(dir, decision) ==
    {f \in dir : f.name # RecordPath(decision.timestamp)}
        \cup {[name |-> RecordPath(decision.timestamp), content |-> ToYaml(decision)]}

\* decisions.sort_by(|a, b| a.timestamp.cmp(&b.timestamp))
RECURSIVE SortByTimestamp(_)
SortByTimestamp(ds) ==
    IF ds = {} THEN << >>
    ELSE LET d == CHOOSE x \in ds : \A y \in ds : x.timestamp <= y.timestamp
         IN  << d >> \o SortByTimestamp(ds \ {d})

\* Journal::read_all: Err when a file cannot be read as text, else the decisions
\* of the files that parse, oldest first (a missing directory is an empty one)
ReadAll(dir) ==
    LET yaml == {f \in dir : f.name.ext = "yaml"}
    IN  IF \E f \in yaml : f.content.kind = "not_utf8"
        THEN [ok |-> FALSE, decisions |-> << >>]
        ELSE [ok |-> TRUE,
              decisions |-> SortByTimestamp(
                  {Unwrap(FromYaml(f.content)) :
                      f \in {g \in yaml : IsSome(FromYaml(g.content))}})]

\* ------------------------------------------------------------------ the engine
\* replies of the reasoning engine (ClaudeResponse.result)
Replies ==
    { << "DECISION:", " ", "ALLOW", "\n", "\n", "fine" >>,
      << "DECISION:", " ", "BLOCK", "\n", "CONFIDENCE:", " ", "HIGH", "\n", "\n", "concern" >>,
      << "DECISION:", " ", "BLOCK", "\n" >> }

\* ClaudeError
ClaudeErrors == {"CommandFailed", "ParseError", "IoError", "Timeout"}

\* ClaudeResponse
ClaudeResponse(result) == [result |-> result, session_id |-> "engine", total_cost_usd |-> 1]

\* ------------------------------------------------------------------ evaluate_llm
\* an invocation that is not running
IdleInv ==
    [pc |-> "idle", session_id |-> None, state |-> DefaultState, transcript_read_at |-> 0,
     messages |-> << >>, response |-> None, verdict |-> None, result |-> None,
     pre_file |-> None, seen |-> 0]

\* LlmEvaluationResult of the early return on an empty window
NothingNew == [ok |-> TRUE, has_concerns |-> FALSE, feedback |-> << "No concerns", "." >>,
               confidence |-> None, cost_usd |-> 0, error |-> "none"]

\* Err(EvaluateError::ClaudeError(e))
ClaudeFailure(e) == [ok |-> FALSE, has_concerns |-> FALSE, feedback |-> << >>,
                     confidence |-> None, cost_usd |-> 0, error |-> e]

\* format!("CONFIDENCE: {}\n\n{}", conf, feedback), or the feedback itself
FeedbackWithConfidence(v) ==
    IF IsSome(v.confidence)
    THEN << "CONFIDENCE:", " ", Unwrap(v.confidence), "\n", "\n" >> \o v.feedback
    ELSE v.feedback

\* a counter of the history that stops at 2
Bump(k) == IF k < 2 THEN k + 1 ELSE k

\* the instant an entry is stamped with, if it has one that parses
Instant(e) ==
    IF IsSome(EntryTimestamp(e)) THEN ParseFromRfc3339(Unwrap(EntryTimestamp(e))) ELSE None

\* history: the engine replied to a cycle that had selected `window`
Replied(h, window) ==
    [i \in 1..MaxEntries |->
        IF i \in window THEN [h[i] EXCEPT !.replied = 1] ELSE h[i]]

\* history: a cycle that had selected `window` returned Ok with the engine's verdict
Evaluated(h, window) ==
    [i \in 1..MaxEntries |->
        IF i \in window THEN [h[i] EXCEPT !.evaluated = Bump(@)] ELSE h[i]]

\* lines 195-208: the state directory and the loaded state
Start(p, sid) ==
    /\ inv[p].pc = "idle"
    /\ inv' = [inv EXCEPT ![p] = [IdleInv EXCEPT
                    !.pc = "loaded", !.session_id = sid,
                    !.state = LoadOrDefault(state_file[SessionDir(sid)]),
                    !.pre_file = state_file[SessionDir(sid)]]]
    /\ UNCHANGED << now, transcript, state_file, feedback_file, decisions, hist, call >>

\* line 214: transcript_read_at = Utc::now()
CaptureReadTime(p) ==
    /\ inv[p].pc = "loaded"
    /\ inv' = [inv EXCEPT ![p].pc = "captured", ![p].transcript_read_at = now]
    /\ UNCHANGED << now, transcript, state_file, feedback_file, decisions, hist, call >>

\* an early return on an empty window that stores the read time as the watermark
ReadTranscriptMarks(p) ==
    /\ inv[p].pc = "captured"
    /\ LET messages == GetMessagesSince(transcript, inv[p].state.last_evaluated,
                                        inv[p].session_id)
       IN  /\ inv' = [inv EXCEPT ![p].messages = messages, ![p].seen = Len(transcript),
                                 ![p].pc = IF Len(messages) = 0 THEN "done" ELSE "invoking",
                                 ![p].result = IF Len(messages) = 0 THEN Some(NothingNew)
                                               ELSE None]
           /\ state_file' = IF Len(messages) = 0
                              THEN [state_file EXCEPT ![SessionDir(inv[p].session_id)] =
                                        Update(@, inv[p].transcript_read_at)]
                              ELSE state_file
    /\ UNCHANGED << now, transcript, feedback_file, decisions, hist, call >>

\* lines 235-251: read the transcript, select the new content, return if none
ReadTranscript(p) ==
    /\ inv[p].pc = "captured"
    /\ LET messages == GetMessagesSince(transcript, inv[p].state.last_evaluated,
                                        inv[p].session_id)
       IN  inv' = [inv EXCEPT ![p].messages = messages, ![p].seen = Len(transcript),
                              ![p].pc = IF Len(messages) = 0 THEN "done" ELSE "invoking",
                              ![p].result = IF Len(messages) = 0 THEN Some(NothingNew)
                                            ELSE None]
    /\ UNCHANGED << now, transcript, state_file, feedback_file, decisions, hist, call >>

\* line 376: claude::invoke returned Ok(response)
InvokeOk(p, reply) ==
    /\ inv[p].pc = "invoking"
    /\ inv' = [inv EXCEPT ![p].pc = "responded", ![p].response = Some(ClaudeResponse(reply))]
    /\ hist' = Replied(hist, Range(inv[p].messages))
    /\ UNCHANGED << now, transcript, state_file, feedback_file, decisions, call >>

\* an error return that stores the read time as the watermark all the same
InvokeErrMarks(p, e) ==
    /\ inv[p].pc = "invoking"
    /\ inv' = [inv EXCEPT ![p].pc = "done", ![p].result = Some(ClaudeFailure(e))]
    /\ state_file' = [state_file EXCEPT ![SessionDir(inv[p].session_id)] =
                          Update(@, inv[p].transcript_read_at)]
    /\ UNCHANGED << now, transcript, feedback_file, decisions, hist, call >>

\* an error return that clears the stored state to have everything reviewed again
InvokeErrResets(p, e) ==
    /\ inv[p].pc = "invoking"
    /\ inv' = [inv EXCEPT ![p].pc = "done", ![p].result = Some(ClaudeFailure(e))]
    /\ state_file' = [state_file EXCEPT ![SessionDir(inv[p].session_id)] =
                          Save(DefaultState)]
    /\ UNCHANGED << now, transcript, feedback_file, decisions, hist, call >>

\* line 376: claude::invoke returned Err, propagated by the ? operator
InvokeErr(p, e) ==
    /\ inv[p].pc = "invoking"
    /\ inv' = [inv EXCEPT ![p].pc = "done", ![p].result = Some(ClaudeFailure(e))]
    /\ UNCHANGED << now, transcript, state_file, feedback_file, decisions, hist, call >>

\* lines 380-382: state_mgr.update(|s| s.mark_evaluated_at(transcript_read_at))
MarkEvaluated(p) ==
    /\ inv[p].pc = "responded"
    /\ state_file' = [state_file EXCEPT ![SessionDir(inv[p].session_id)] =
                          Update(@, inv[p].transcript_read_at)]
    /\ inv' = [inv EXCEPT ![p].pc = "marked"]
    /\ UNCHANGED << now, transcript, feedback_file, decisions, hist, call >>

\* lines 385-386: parse_decision_response(response.result.trim())
ParseResponse(p) ==
    /\ inv[p].pc = "marked"
    /\ inv' = [inv EXCEPT ![p].pc = "parsed",
                          ![p].verdict = Some(ParseDecisionResponse(
                                                  Trim(Unwrap(inv[p].response).result)))]
    /\ UNCHANGED << now, transcript, state_file, feedback_file, decisions, hist, call >>

\* lines 389-401: queue.write(Feedback::warning(feedback_with_confidence))
WriteFeedback(p) ==
    /\ inv[p].pc = "parsed"
    /\ Unwrap(inv[p].verdict).has_concerns
    /\ feedback_file' = [feedback_file EXCEPT ![SessionDir(inv[p].session_id)] =
                             FeedbackWrite(FeedbackWithConfidence(Unwrap(inv[p].verdict)))]
    /\ inv' = [inv EXCEPT ![p].pc = "fed"]
    /\ UNCHANGED << now, transcript, state_file, decisions, hist, call >>

\* lines 403-408: journal.write(Decision::feedback_delivered(..))
WriteJournal(p) ==
    /\ inv[p].pc = "fed"
    /\ decisions' = [decisions EXCEPT ![SessionDir(inv[p].session_id)] =
                         JournalWrite(@, FeedbackDelivered(
                                             Some(Unwrap(inv[p].response).session_id),
                                             Unwrap(inv[p].verdict).feedback))]
    /\ inv' = [inv EXCEPT ![p].pc = "journaled"]
    /\ UNCHANGED << now, transcript, state_file, feedback_file, hist, call >>

\* a return that clears the mailbox when the verdict is non-blocking
ReturnClears(p) ==
    /\ \/ inv[p].pc = "journaled"
       \/ inv[p].pc = "parsed" /\ ~Unwrap(inv[p].verdict).has_concerns
    /\ LET v == Unwrap(inv[p].verdict)
       IN  /\ inv' = [inv EXCEPT ![p].pc = "done",
                       ![p].result = Some([ok |-> TRUE, has_concerns |-> v.has_concerns,
                                           feedback |-> v.feedback, confidence |-> v.confidence,
                                           cost_usd |-> Unwrap(inv[p].response).total_cost_usd,
                                           error |-> "none"])]
           /\ feedback_file' = IF v.has_concerns THEN feedback_file
                                ELSE [feedback_file EXCEPT ![SessionDir(inv[p].session_id)] = None]
    /\ hist' = Evaluated(hist, Range(inv[p].messages))
    /\ UNCHANGED << now, transcript, state_file, decisions, call >>

\* lines 418-423: Ok(LlmEvaluationResult { .. })
Return(p) ==
    /\ \/ inv[p].pc = "journaled"
       \/ inv[p].pc = "parsed" /\ ~Unwrap(inv[p].verdict).has_concerns
    /\ LET v == Unwrap(inv[p].verdict)
       IN  inv' = [inv EXCEPT ![p].pc = "done",
                     ![p].result = Some([ok |-> TRUE, has_concerns |-> v.has_concerns,
                                         feedback |-> v.feedback, confidence |-> v.confidence,
                                         cost_usd |-> Unwrap(inv[p].response).total_cost_usd,
                                         error |-> "none"])]
    /\ hist' = Evaluated(hist, Range(inv[p].messages))
    /\ UNCHANGED << now, transcript, state_file, feedback_file, decisions, call >>

\* the process of the invocation ends after evaluate_llm returned
Exit(p) ==
    /\ inv[p].pc = "done"
    /\ inv' = [inv EXCEPT ![p] = IdleInv]
    /\ UNCHANGED << now, transcript, state_file, feedback_file, decisions, hist, call >>

\* the process of the invocation is interrupted before evaluate_llm returned
Kill(p) ==
    /\ inv[p].pc \notin {"idle", "done"}
    /\ inv' = [inv EXCEPT ![p] = IdleInv]
    /\ UNCHANGED << now, transcript, state_file, feedback_file, decisions, hist, call >>

\* ------------------------------------------------------------------ environment
\* the session_id the hooks pass along with this transcript
Session == Some("s1")

\* the wall clock advances
Tick ==
    /\ now < MaxTime
    /\ now' = now + 1
    /\ UNCHANGED << transcript, state_file, feedback_file, decisions, inv, hist, call >>

\* records the host tool appends, stamped with the instant of the append
NewEntries == {Message("user", Session, Some(Rfc3339(now))), Other("summary")}

\* the host tool appends a record to the transcript
AppendEntry(e) ==
    /\ Len(transcript) < MaxEntries
    /\ transcript' = Append(transcript, e)
    /\ UNCHANGED << now, state_file, feedback_file, decisions, inv, hist, call >>

\* a hook consumes the pending feedback: FeedbackQueue::get_and_clear
TakeFeedback(d) ==
    /\ HasFeedback(feedback_file[d])
    /\ feedback_file' = [feedback_file EXCEPT ![d] = GetAndClear(@).file]
    /\ UNCHANGED << now, transcript, state_file, decisions, inv, hist, call >>

\* ------------------------------------------------------------------ specification
\* no function is called on its own
NoCall == [returned |-> None]

\* after sg init: state.json of the project directory holds State::default()
InitPipeline ==
    /\ now = 0
    /\ transcript = << >>
    /\ state_file = [d \in Dirs |-> IF d = "root" THEN Save(DefaultState) ELSE None]
    /\ feedback_file = [d \in Dirs |-> None]
    /\ decisions = [d \in Dirs |-> {}]
    /\ inv = [p \in Procs |-> IdleInv]
    /\ hist = [i \in 1..MaxEntries |-> [replied |-> 0, evaluated |-> 0]]

Init ==
    /\ InitPipeline
    /\ call = NoCall

\* no invocation is running
AllIdle == \A q \in Procs : inv[q].pc = "idle"

\* one evaluation cycle at a time
Next ==
    \/ AllIdle /\ Start(1, Session)
    \/ CaptureReadTime(1)
    \/ ReadTranscript(1)
    \/ \E reply \in Replies : InvokeOk(1, reply)
    \/ \E e \in ClaudeErrors : InvokeErr(1, e)
    \/ MarkEvaluated(1)
    \/ ParseResponse(1)
    \/ WriteFeedback(1)
    \/ WriteJournal(1)
    \/ Return(1)
    \/ Exit(1)
    \/ Kill(1)
    \/ Tick
    \/ \E e \in NewEntries : AppendEntry(e)
    \/ \E d \in Dirs : TakeFeedback(d)

Spec == Init /\ [][Next]_vars

\* ------------------------------------------------------------------ get_messages_since on its own
\* last instant of the timestamps and cursors handed to get_messages_since
MaxSelTime == 2

\* the records a transcript may hold
SelEntries ==
    {Message("user", Some("s1"), Some(Rfc3339(t))) : t \in 0..MaxSelTime}
        \cup {Message("assistant", Some("s2"), Some(Rfc3339(t))) : t \in 0..MaxSelTime}
        \cup {Message("assistant", Some("s1"), Some(Rfc3339(MaxSelTime))),
              Message("user", None, Some(Rfc3339(1))),
              Message("user", Some("s1"), None),
              Message("user", Some("s1"), Some(Garbage)),
              Other("summary"), Other("file-history-snapshot"), Other("unknown")}

RECURSIVE SeqsUpTo(_, _)
SeqsUpTo(S, n) ==
    IF n = 0 THEN {<< >>}
    ELSE LET shorter == SeqsUpTo(S, n - 1)
         IN  shorter \cup {Append(q, x) : q \in shorter, x \in S}

\* the cursors: None, or an instant
SelCursors == {None} \cup {Some(t) : t \in 0..(MaxSelTime + 1)}

InitSelect ==
    /\ InitPipeline
    /\ call \in {[entries |-> es, since |-> c, session_id |-> sid, returned |-> None] :
                    es \in SeqsUpTo(SelEntries, MaxSelLen), c \in SelCursors,
                    sid \in SessionArgs}

\* get_messages_since(&entries, since, session_id) is called
CallGetMessagesSince ==
    /\ call.returned = None
    /\ call' = [call EXCEPT !.returned =
                   Some(GetMessagesSince(call.entries, call.since, call.session_id))]
    /\ UNCHANGED pipeline

NextSelect == CallGetMessagesSince

SpecSelect == InitSelect /\ [][NextSelect]_vars

\* ------------------------------------------------------------------ properties
\* the stored last_evaluated of a state directory
Watermark(d) == LoadOrDefault(state_file[d]).last_evaluated

\* the state directory of invocation p
DirOf(p) == SessionDir(inv[p].session_id)

\* the engine replied to invocation p, which has not ended yet
Replying(p) == inv[p].pc \in {"responded", "marked", "parsed", "fed", "journaled"}

\* invocation p has stored its watermark and has not ended yet
Marked(p) == inv[p].pc \in {"marked", "parsed", "fed", "journaled"}

\* the engine call of invocation p failed and evaluate_llm has returned
EngineFailed(p) ==
    inv[p].pc = "done" /\ Len(inv[p].messages) > 0 /\ ~IsSome(inv[p].response)

\* the verdict the reply of invocation p parses to
VerdictOf(p) == ParseDecisionResponse(Trim(Unwrap(inv[p].response).result))

\* evaluate_llm has returned Ok to invocation p with the engine's verdict
Succeeded(p) ==
    inv[p].pc = "done" /\ IsSome(inv[p].response) /\ Unwrap(inv[p].result).ok

\* C1: once a cycle has succeeded, every message of the session that was in
\* the transcript when the cycle read it has been in the window of a cycle the
\* engine replied to.
C1_NoMessageSkipped ==
    \A p \in Procs :
        Succeeded(p) =>
            \A i \in 1..inv[p].seen :
                (IsMessage(transcript[i]) /\ SessionFilter(transcript[i], inv[p].session_id))
                    => hist[i].replied >= 1

\* C2: after a cycle whose engine call succeeded has stored the watermark,
\* last_evaluated is the instant captured before the transcript was read.
C2_WatermarkIsReadTime ==
    \A p \in Procs : Marked(p) => Watermark(DirOf(p)) = Some(inv[p].transcript_read_at)

\* C2 witness: the clock has advanced during the engine call and the stored
\* watermark is the earlier, captured instant.
C2_Witness ==
    \E p \in Procs :
        /\ inv[p].pc = "marked"
        /\ now > inv[p].transcript_read_at
        /\ Watermark(DirOf(p)) = Some(inv[p].transcript_read_at)

\* C3: when the engine call fails, evaluate_llm returns an error, state.json
\* is what it was when the cycle started, and the window of a cycle run now
\* contains every entry of the failed cycle's window.
C3_FailedCallKeepsWatermark ==
    \A p \in Procs :
        EngineFailed(p) =>
            /\ ~Unwrap(inv[p].result).ok
            /\ Unwrap(inv[p].result).error \in ClaudeErrors
            /\ state_file[DirOf(p)] = inv[p].pre_file
            /\ Range(inv[p].messages) \subseteq
                   Range(GetMessagesSince(transcript, Watermark(DirOf(p)), inv[p].session_id))

\* C3 witness: a cycle that found new content after an earlier watermark has
\* failed, and the transcript has grown since it was read.
C3_Witness ==
    \E p \in Procs :
        /\ EngineFailed(p)
        /\ IsSome(Watermark(DirOf(p)))
        /\ now > Unwrap(Watermark(DirOf(p)))
        /\ Len(transcript) > inv[p].seen

C7_NoDoubleCount == \A i \in 1..Len(transcript) : hist[i].evaluated <= 1

\* C8: the window is computed only after the state was loaded, and the
\* watermark is stored only after the reply was parsed into a verdict.
C8_WatermarkAfterParse ==
    \A p \in Procs :
        /\ Len(inv[p].messages) > 0 => inv[p].pc \notin {"idle", "loaded", "captured"}
        /\ Marked(p) => IsSome(inv[p].verdict)

\* C9: while a cycle with a blocking verdict runs, the watermark is advanced
\* to its read time only once its feedback and its journal record are written.
C9_FeedbackBeforeWatermark ==
    \A p \in Procs :
        (/\ Replying(p)
         /\ VerdictOf(p).has_concerns
         /\ Watermark(DirOf(p)) = Some(inv[p].transcript_read_at)
         /\ LoadOrDefault(inv[p].pre_file).last_evaluated # Some(inv[p].transcript_read_at))
            => inv[p].pc = "journaled"

\* C10: the step that writes the feedback of a blocking verdict leaves pending
\* feedback that get_and_clear returns, and the step that writes the journal
\* leaves a record whose context is the feedback body.
C10_BlockingLeavesFeedback ==
    [][\A p \in Procs :
          /\ (inv[p].pc = "parsed" /\ inv'[p].pc = "fed") =>
                 /\ HasFeedback(feedback_file'[DirOf(p)])
                 /\ GetAndClear(feedback_file'[DirOf(p)]).content =
                        Some(FeedbackWithConfidence(VerdictOf(p)))
          /\ (inv[p].pc = "fed" /\ inv'[p].pc = "journaled") =>
                 \E f \in decisions'[DirOf(p)] :
                     FromYaml(f.content) # None /\
                     Unwrap(FromYaml(f.content)).context = Some(VerdictOf(p).feedback)]_vars

\* the entries get_messages_since returned, in the call made on its own
Returned == Range(Unwrap(call.returned))

RaceTranscript ==
    << Message("user", Some("s1"), Some(Rfc3339(0))),
       Message("user", Some("s1"), Some(Rfc3339(2))) >>

\* C6: with a cursor, every message of the filtered session stamped after the
\* cursor is returned and no message stamped at or before it is; for A at 0
\* and B at 2, the read time 1 returns B alone and the completion time 3 nothing.
C6_ReturnsEverythingAfterCursor ==
    (IsSome(call.returned) /\ IsSome(call.since)) =>
        /\ \A k \in 1..Len(call.entries) :
              LET e == call.entries[k]
              IN  /\ (/\ IsMessage(e)
                      /\ SessionFilter(e, call.session_id)
                      /\ IsSome(Instant(e))
                      /\ Unwrap(Instant(e)) > Unwrap(call.since)) => k \in Returned
                  /\ (IsSome(Instant(e)) /\ Unwrap(Instant(e)) <= Unwrap(call.since))
                         => k \notin Returned
        /\ (call.entries = RaceTranscript /\ call.session_id = Some("s1")) =>
              /\ call.since = Some(1) => Unwrap(call.returned) = << 2 >>
              /\ call.since = Some(3) => Unwrap(call.returned) = << >>

\* C6 witness: the race transcript read with the captured read time as cursor.
C6_Witness ==
    /\ IsSome(call.returned)
    /\ call.entries = RaceTranscript
    /\ call.session_id = Some("s1")
    /\ call.since = Some(1)
    /\ Unwrap(call.returned) = << 2 >>

\* ------------------------------------------------------------------ parse_decision_response on its own
\* most lines of a reply handed to parse_decision_response on its own
MaxReplyLines == 2

\* markdown decoration in front of the DECISION: marker
DecoLead == { << >>, << "#", "#", " " >>, << ">", " " >>, << "*", "*" >> }

\* what stands between the marker and the verdict token
DecoMid == { << " " >>, << "*", "*", " " >> }

\* verdict tokens the engine writes, with or without decoration
Verdicts == {"ALLOW", "BLOCK"}

\* verdict tokens in another case or outside the grammar, written plainly
OddVerdicts == {"allow", "MAYBE"}

\* markdown decoration after the verdict token
DecoTrail == { << >>, << "*", "*" >> }

\* lines that carry the DECISION: marker
DecisionLines ==
    {lead \o << "DECISION:" >> \o mid \o << v >> \o trail :
        lead \in DecoLead, mid \in DecoMid, v \in Verdicts, trail \in DecoTrail}
    \cup {<< "DECISION:", " ", v >> : v \in OddVerdicts}

\* the other lines of a reply
OtherLines ==
    { << >>, << "CONFIDENCE:", " ", "HIGH" >>, << "concern" >>, << "no concerns" >>,
      << "No concerns", "." >>, << CodeFence >> }

\* the lines a reply is made of
ReplyLines == DecisionLines \cup OtherLines

\* the reply: up to MaxReplyLines lines joined by newlines
InitParse ==
    /\ InitPipeline
    /\ \E ls \in SeqsUpTo(ReplyLines, MaxReplyLines) :
          call = [response |-> JoinLines(ls), returned |-> None]

\* parse_decision_response(response) is called
CallParseDecisionResponse ==
    /\ call.returned = None
    /\ call' = [call EXCEPT !.returned = Some(ParseDecisionResponse(call.response))]
    /\ UNCHANGED pipeline

NextParse == CallParseDecisionResponse

SpecParse == InitParse /\ [][NextParse]_vars

\* the line carries the DECISION: marker once its leading decoration is stripped
IsDecisionLine(line) == IsSome(StripPrefix(StripMarkdownPrefix(line), "DECISION:"))

\* the indices of the lines of a text that carry the DECISION: marker
DecisionIdx(lines) == {i \in 1..Len(lines) : IsDecisionLine(lines[i])}

\* the first of a non-empty set of indices
First(S) == CHOOSE i \in S : \A j \in S : i <= j

\* a sequence without the elements of a set
RECURSIVE Without(_, _)
Without(q, drop) ==
    IF Len(q) = 0 THEN << >>
    ELSE IF q[1] \in drop THEN Without(Tail(q), drop)
    ELSE << q[1] >> \o Without(Tail(q), drop)

\* the verdict token of a DECISION: line: what is left of the line once the
\* marker, the markdown marks and the white space are taken away, in upper case
VerdictToken(line) ==
    ToUppercase(Without(line, Whitespace \cup {"#", ">", "*", "DECISION:"}))

\* the verdict parse_decision_response returned in the call made on its own
Verdict == Unwrap(call.returned)

\* C11: a reply is non-blocking only if its first DECISION: line carries the
\* token ALLOW in any case, or no line carries DECISION: and the whole text is
\* "no concerns" or "no concerns." in any case; a first DECISION: line with
\* MAYBE and the empty reply are blocking.
C11_DefaultSafeParsing ==
    IsSome(call.returned) =>
        LET lines == Lines(call.response)
            idx == DecisionIdx(lines)
        IN  /\ ~Verdict.has_concerns =>
                  \/ idx # {} /\ VerdictToken(lines[First(idx)]) = << "ALLOW" >>
                  \/ /\ idx = {}
                     /\ ToUppercase(call.response) \in
                            { << "NO CONCERNS" >>, << "NO CONCERNS", "." >> }
            /\ (idx # {} /\ VerdictToken(lines[First(idx)]) = << "MAYBE" >>)
                   => Verdict.has_concerns
            /\ call.response = << >> => Verdict.has_concerns

\* C11 witness: a reply whose DECISION: line carries MAYBE was parsed as blocking.
C11_Witness ==
    /\ IsSome(call.returned)
    /\ Verdict.has_concerns
    /\ LET lines == Lines(call.response)
       IN  /\ DecisionIdx(lines) # {}
           /\ VerdictToken(lines[First(DecisionIdx(lines))]) = << "MAYBE" >>

\* sub occurs in q as a run of consecutive elements
Contains(q, sub) ==
    \E k \in 0..(Len(q) - Len(sub)) : SubSeq(q, k + 1, k + Len(sub)) = sub

\* C19: the verdict is that of the reply cut after its first DECISION: line, and
\* every later DECISION: line is found in the feedback body.
C19_FirstDecisionLineWins ==
    IsSome(call.returned) =>
        LET lines == Lines(call.response)
            idx == DecisionIdx(lines)
        IN  idx # {} =>
                /\ Verdict.has_concerns =
                       ParseDecisionResponse(JoinLines(SubSeq(lines, 1, First(idx)))).has_concerns
                /\ \A j \in idx : j > First(idx) => Contains(Verdict.feedback, Trim(lines[j]))

\* C19 witness: a reply whose first DECISION: line allows and whose second one
\* blocks was parsed as non-blocking.
C19_Witness ==
    /\ IsSome(call.returned)
    /\ ~Verdict.has_concerns
    /\ LET lines == Lines(call.response)
       IN  /\ Len(lines) = 2
           /\ DecisionIdx(lines) = {1, 2}
           /\ VerdictToken(lines[2]) = << "BLOCK" >>
           /\ Contains(Verdict.feedback, lines[2])

\* the line DECISION: <token> without any decoration
Undecorated(line) == << "DECISION:", " " >> \o VerdictToken(line)

\* C20: a reply whose first DECISION: line carries ALLOW or BLOCK with markdown
\* decoration before the marker or after the token gets the verdict of the same
\* reply with that line undecorated.
C20_MarkdownTolerance ==
    IsSome(call.returned) =>
        LET lines == Lines(call.response)
            idx == DecisionIdx(lines)
        IN  (idx # {} /\ VerdictToken(lines[First(idx)]) \in { << "ALLOW" >>, << "BLOCK" >> }) =>
                Verdict.has_concerns =
                    ParseDecisionResponse(
                        JoinLines([lines EXCEPT ![First(idx)] = Undecorated(@)])).has_concerns

\* C14: with a session filter, every User or Assistant entry returned carries
\* exactly that session id, with or without a cursor.
C14_SessionIsolation ==
    (IsSome(call.returned) /\ IsSome(call.session_id)) =>
        \A k \in Returned :
            IsMessage(call.entries[k]) => call.entries[k].session_id = call.session_id

\* C14 witness: with a session filter, a message of the session is returned and a
\* message without a session id, stamped after the cursor, is left out.
C14_Witness ==
    /\ IsSome(call.returned)
    /\ IsSome(call.session_id)
    /\ IsSome(call.since)
    /\ \E k \in Returned : IsMessage(call.entries[k])
    /\ \E k \in 1..Len(call.entries) :
          /\ k \notin Returned
          /\ IsMessage(call.entries[k])
          /\ call.entries[k].session_id = None
          /\ AfterCutoff(call.entries[k], Unwrap(call.since))

\* C15: with a session filter, every Summary entry of the transcript is
\* returned, with or without a cursor.
C15_SummariesPassSessionFilter ==
    (IsSome(call.returned) /\ IsSome(call.session_id)) =>
        \A k \in 1..Len(call.entries) : IsSummary(call.entries[k]) => k \in Returned

\* ------------------------------------------------------------------ FeedbackQueue on its own
\* most operations on the queue in one run
MaxOps == 3

\* the messages written to the queue; evaluate_llm writes the feedback body of
\* the verdict, which may be empty
Messages == { << >>, << "concern" >>, << "CONFIDENCE:", " ", "HIGH", "\n", "\n", "concern" >> }

\* the queue of the project directory
Queue == "root"

InitMailbox ==
    /\ InitPipeline
    /\ call = [log |-> << >>]

\* queue.write(&Feedback::new(m))
MailboxWrite(m) ==
    /\ Len(call.log) < MaxOps
    /\ feedback_file' = [feedback_file EXCEPT ![Queue] = FeedbackWrite(m)]
    /\ call' = [call EXCEPT !.log = Append(@, [op |-> "write", arg |-> Some(m), ret |-> None])]
    /\ UNCHANGED << now, transcript, state_file, decisions, inv, hist >>

\* queue.get_and_clear()
MailboxGetAndClear ==
    /\ Len(call.log) < MaxOps
    /\ feedback_file' = [feedback_file EXCEPT ![Queue] = GetAndClear(@).file]
    /\ call' = [call EXCEPT !.log = Append(@, [op |-> "get_and_clear", arg |-> None,
                                                ret |-> GetAndClear(feedback_file[Queue]).content])]
    /\ UNCHANGED << now, transcript, state_file, decisions, inv, hist >>

\* queue.has_feedback()
MailboxHasFeedback ==
    /\ Len(call.log) < MaxOps
    /\ call' = [call EXCEPT !.log = Append(@, [op |-> "has_feedback", arg |-> None,
                                                ret |-> Some(HasFeedback(feedback_file[Queue]))])]
    /\ UNCHANGED pipeline

NextMailbox ==
    \/ \E m \in Messages : MailboxWrite(m)
    \/ MailboxGetAndClear
    \/ MailboxHasFeedback

SpecMailbox == InitMailbox /\ [][NextMailbox]_vars

\* the message pending before operation k of the log: that of the most recent
\* write not yet followed by a get_and_clear, if there is one
RECURSIVE Pending(_, _)
Pending(log, k) ==
    IF k <= 1 THEN None
    ELSE IF log[k - 1].op = "write" THEN log[k - 1].arg
    ELSE IF log[k - 1].op = "get_and_clear" THEN None
    ELSE Pending(log, k - 1)

\* C12: every get_and_clear returns the message of the most recent write not yet
\* followed by a get_and_clear, or None when there is no such write, and
\* has_feedback tells whether there is one.
C12_SingleSlotMailbox ==
    \A k \in 1..Len(call.log) :
        /\ call.log[k].op = "get_and_clear" => call.log[k].ret = Pending(call.log, k)
        /\ call.log[k].op = "has_feedback" =>
               call.log[k].ret = Some(IsSome(Pending(call.log, k)))

\* ------------------------------------------------------------------ Journal on its own
\* last instant of the wall clock while the journal is written on its own
MaxJournalTime == 3

\* the context texts of the decisions written
Contexts == { << "concern" >>, << "null" >> }

\* the decisions handed to Journal::write at the present instant
JournalDecisions ==
    {FeedbackDelivered(None, c) : c \in Contexts}
        \cup {OverrideGranted(Session, << >>), PhaseTransition(Session, << "go ahead" >>)}

InitJournal ==
    /\ InitPipeline
    /\ call = [written |-> {}, last |-> None, returned |-> None]

\* the wall clock advances by one sub-second tick
TickJournal ==
    /\ now < MaxJournalTime
    /\ now' = now + 1
    /\ UNCHANGED << transcript, state_file, feedback_file, decisions, inv, hist, call >>

\* journal.write(&decision), the timestamp being different from that of every
\* decision written before
CallJournalWrite(decision) ==
    /\ \A w \in call.written : w.timestamp # now
    /\ decisions' = [decisions EXCEPT ![Queue] = JournalWrite(@, decision)]
    /\ call' = [written |-> call.written \cup {decision}, last |-> Some(decision),
                returned |-> None]
    /\ UNCHANGED << now, transcript, state_file, feedback_file, inv, hist >>

\* journal.read_all()
CallJournalReadAll ==
    /\ call.returned = None
    /\ call' = [call EXCEPT !.returned = Some(ReadAll(decisions[Queue]))]
    /\ UNCHANGED pipeline

NextJournal ==
    \/ TickJournal
    \/ \E d \in JournalDecisions : CallJournalWrite(d)
    \/ CallJournalReadAll

SpecJournal == InitJournal /\ [][NextJournal]_vars

\* C13: after writes with pairwise different timestamps, read_all returns every
\* decision written, as many records as there were writes.
C13_JournalNeverOverwritten ==
    /\ ReadAll(decisions[Queue]).ok
    /\ call.written \subseteq Range(ReadAll(decisions[Queue]).decisions)
    /\ Len(ReadAll(decisions[Queue]).decisions) = Cardinality(call.written)

\* ------------------------------------------------------------------ Commands::EvaluateCodex
\* last instant of the wall clock while evaluate-codex runs, in ticks
MaxCodexTime == 3

\* seconds in one tick of that clock
SecondsPerTick == 150

\* lock_timeout = Duration::from_secs(300)
LockTimeoutSecs == 300

\* an evaluate-codex process that is not running
IdleCodex == [pc |-> "idle", invoked |-> FALSE, outcome |-> "none", has_concerns |-> FALSE]

\* how a finished invocation of the Codex engine ends
CodexOutcomes == {"rate_limited", "failed"}

InitCodex ==
    /\ InitPipeline
    /\ call = [lock |-> None, owner |-> 0, cx |-> [p \in Procs |-> IdleCodex]]

\* the wall clock advances
TickCodex ==
    /\ now < MaxCodexTime
    /\ now' = now + 1
    /\ UNCHANGED << transcript, state_file, feedback_file, decisions, inv, hist, call >>

\* modified.elapsed(), in seconds
Elapsed(modified) == (now - modified) * SecondsPerTick

\* lines 478-500: the command starts, .superego exists
CodexStart(p) ==
    /\ call.cx[p].pc = "idle"
    /\ call' = [call EXCEPT !.cx[p].pc = "checking"]
    /\ UNCHANGED pipeline

\* a skip that takes the lock file away
CodexSkipRemoves(p) ==
    /\ call.cx[p].pc = "checking"
    /\ IsSome(call.lock)
    /\ Elapsed(Unwrap(call.lock)) < LockTimeoutSecs
    /\ call' = [call EXCEPT !.lock = None, !.cx[p].pc = "done", !.cx[p].outcome = "skipped",
                            !.cx[p].has_concerns = FALSE]
    /\ UNCHANGED pipeline

\* lines 506-516: the lock file is there and younger than the timeout
CodexSkip(p) ==
    /\ call.cx[p].pc = "checking"
    /\ IsSome(call.lock)
    /\ Elapsed(Unwrap(call.lock)) < LockTimeoutSecs
    /\ call' = [call EXCEPT !.cx[p].pc = "done", !.cx[p].outcome = "skipped",
                            !.cx[p].has_concerns = FALSE]
    /\ UNCHANGED pipeline

\* lines 506-517: the lock file is there and not younger than the timeout
CodexFindStale(p) ==
    /\ call.cx[p].pc = "checking"
    /\ IsSome(call.lock)
    /\ ~(Elapsed(Unwrap(call.lock)) < LockTimeoutSecs)
    /\ call' = [call EXCEPT !.cx[p].pc = "removing"]
    /\ UNCHANGED pipeline

\* line 518: remove_file(&lock_path), whatever file is there by now
CodexRemoveStale(p) ==
    /\ call.cx[p].pc = "removing"
    /\ call' = [call EXCEPT !.lock = None, !.cx[p].pc = "locking"]
    /\ UNCHANGED pipeline

\* line 506: there is no lock file
CodexFindNoLock(p) ==
    /\ call.cx[p].pc = "checking"
    /\ ~IsSome(call.lock)
    /\ call' = [call EXCEPT !.cx[p].pc = "locking"]
    /\ UNCHANGED pipeline

\* lines 522-533: fs::write(&lock_path, now) and the guard that removes it on drop
CodexCreateLock(p) ==
    /\ call.cx[p].pc = "locking"
    /\ call' = [call EXCEPT !.lock = Some(now), !.owner = p, !.cx[p].pc = "locked"]
    /\ UNCHANGED pipeline

\* lines 536-562: no Codex session, or the transcript cannot be read: exit(1),
\* which runs no destructor
CodexNoSession(p) ==
    /\ call.cx[p].pc = "locked"
    /\ call' = [call EXCEPT !.cx[p].pc = "done", !.cx[p].outcome = "failed"]
    /\ UNCHANGED pipeline

\* lines 564-569: the transcript is empty: return, the guard drops
CodexNoEntries(p) ==
    /\ call.cx[p].pc = "locked"
    /\ call' = [call EXCEPT !.lock = None, !.cx[p].pc = "done",
                            !.cx[p].outcome = "no_entries", !.cx[p].has_concerns = FALSE]
    /\ UNCHANGED pipeline

\* line 598: codex_llm::invoke is called
CodexInvoke(p) ==
    /\ call.cx[p].pc = "locked"
    /\ call' = [call EXCEPT !.cx[p].pc = "invoking", !.cx[p].invoked = TRUE]
    /\ UNCHANGED pipeline

\* line 607: !response.result.contains("DECISION: ALLOW")
CodexHasConcerns(result) == ~Contains(result, << "DECISION:", " ", "ALLOW" >>)

\* lines 599-621: Ok(response): the verdict is printed, the guard drops
CodexVerdict(p, reply) ==
    /\ call.cx[p].pc = "invoking"
    /\ call' = [call EXCEPT !.lock = None, !.cx[p].pc = "done", !.cx[p].outcome = "verdict",
                            !.cx[p].has_concerns = CodexHasConcerns(reply)]
    /\ UNCHANGED pipeline

\* lines 622-639: Err(RateLimited): skipped, the guard drops; any other Err:
\* exit(1), which runs no destructor
CodexEngineErr(p, outcome) ==
    /\ call.cx[p].pc = "invoking"
    /\ call' = [call EXCEPT !.lock = IF outcome = "rate_limited" THEN None ELSE @,
                            !.cx[p].pc = "done", !.cx[p].outcome = outcome,
                            !.cx[p].has_concerns = FALSE]
    /\ UNCHANGED pipeline

\* the process has ended
CodexExit(p) ==
    /\ call.cx[p].pc = "done"
    /\ call' = [call EXCEPT !.cx[p] = IdleCodex]
    /\ UNCHANGED pipeline

NextCodex ==
    \/ TickCodex
    \/ \E p \in Procs :
          \/ CodexStart(p)
          \/ CodexSkip(p)
          \/ CodexFindStale(p)
          \/ CodexRemoveStale(p)
          \/ CodexFindNoLock(p)
          \/ CodexCreateLock(p)
          \/ CodexNoSession(p)
          \/ CodexNoEntries(p)
          \/ CodexInvoke(p)
          \/ \E reply \in Replies : CodexVerdict(p, reply)
          \/ \E o \in CodexOutcomes : CodexEngineErr(p, o)
          \/ CodexExit(p)

SpecCodex == InitCodex /\ [][NextCodex]_vars

\* C17: an invocation that finds the lock younger than the timeout ends as
\* skipped, without error, without having invoked the engine and with the lock
\* file as it was; one that finds an older lock removes it and goes on to take
\* the lock and evaluate.
C17_AdvisoryLock ==
    [][\A p \in Procs :
          LET me == call.cx[p]
              found == me.pc = "checking" /\ IsSome(call.lock) /\ call.cx'[p] # me
              young == Elapsed(Unwrap(call.lock)) < LockTimeoutSecs
          IN  /\ (found /\ young) =>
                     /\ call.cx'[p] = [pc |-> "done", invoked |-> FALSE,
                                       outcome |-> "skipped", has_concerns |-> FALSE]
                     /\ call.lock' = call.lock
              /\ (found /\ ~young) => call.cx'[p].pc = "removing"
              /\ (me.pc = "removing" /\ call.cx'[p] # me) =>
                     call.lock' = None /\ call.cx'[p].pc = "locking"
              /\ me.outcome = "skipped" => ~me.invoked]_vars

\* C17 witness: one invocation was skipped on a lock half the timeout old, and
\* a later one has found the same lock stale and is about to remove it.
C17_Witness ==
    \E p, q \in Procs :
        /\ call.cx[p].outcome = "skipped"
        /\ call.cx[q].pc = "removing"
        /\ IsSome(call.lock)
        /\ Elapsed(Unwrap(call.lock)) >= LockTimeoutSecs

\* invocation p is between its lock check and its exit
Evaluating(p) == call.cx[p].pc \in {"locked", "invoking"}

\* C32: the lock file prevents concurrent Codex evaluations: while nothing has
\* run for as long as the staleness timeout, at most one invocation at a time
\* is between its lock check and its exit
C32_LockExcludes ==
    now * SecondsPerTick < LockTimeoutSecs =>
        Cardinality({p \in Procs : Evaluating(p)}) <= 1

\* C33: the lock is removed on exit: an invocation that created the lock file
\* has removed it when its process ends, on every exit path, and an invocation
\* removes only a lock file that it wrote itself
C33_LockRemovedOnExit ==
    [][\A p \in Procs :
          /\ (Evaluating(p) /\ call.cx'[p].pc = "done") =>
                ~(IsSome(call.lock') /\ call.owner' = p)
          /\ (Evaluating(p) /\ IsSome(call.lock) /\ ~IsSome(call.lock')) =>
                call.owner = p]_vars

\* ------------------------------------------------------------------ evaluate_llm, several sessions
\* a transcript with a message of each session and one without a session id
MixedTranscript ==
    << Message("user", Some("s1"), Some(Rfc3339(1))),
       Message("assistant", Some("s2"), Some(Rfc3339(1))),
       Message("user", None, Some(Rfc3339(1))) >>

\* state.json left by an earlier cycle
EarlierState == Save(MarkEvaluatedAt(DefaultState, 0))

\* feedback left pending by an earlier cycle
EarlierFeedback == FeedbackWrite(<< "earlier" >>)

\* a journal with the record of an earlier cycle
EarlierJournal ==
    JournalWrite({}, [timestamp |-> 0, session_id |-> None,
                      decision_type |-> "feedback_delivered",
                      context |-> Some(<< "earlier" >>), trigger |-> None])

\* every state directory holds what earlier cycles left there, or nothing
InitIsolation ==
    /\ now = 1
    /\ transcript = MixedTranscript
    /\ \E used \in SUBSET Dirs :
          /\ state_file = [d \in Dirs |-> IF d \in used THEN EarlierState ELSE None]
          /\ feedback_file = [d \in Dirs |-> IF d \in used THEN EarlierFeedback ELSE None]
          /\ decisions = [d \in Dirs |-> IF d \in used THEN EarlierJournal ELSE {}]
    /\ inv = [p \in Procs |-> IdleInv]
    /\ hist = [i \in 1..MaxEntries |-> [replied |-> 0, evaluated |-> 0]]
    /\ call = NoCall

\* cycles of any session, one at a time, nothing else touching the files
NextIsolation ==
    \/ \E sid \in SessionArgs : AllIdle /\ Start(1, sid)
    \/ CaptureReadTime(1)
    \/ ReadTranscript(1)
    \/ \E reply \in Replies : InvokeOk(1, reply)
    \/ \E e \in ClaudeErrors : InvokeErr(1, e)
    \/ MarkEvaluated(1)
    \/ ParseResponse(1)
    \/ WriteFeedback(1)
    \/ WriteJournal(1)
    \/ Return(1)
    \/ Exit(1)
    \/ Kill(1)

SpecIsolation == InitIsolation /\ [][NextIsolation]_vars

\* C16: every step of a cycle run with session id A leaves the watermark, the
\* pending feedback and the journal of every other namespace as they were, and
\* the state the cycle works with is the one it loaded from the namespace of A.
C16_SessionScopedState ==
    [][\A p \in Procs :
          LET A == IF inv[p].pc = "idle" THEN inv'[p].session_id ELSE inv[p].session_id
              own == IF IsSome(A) THEN Unwrap(A) ELSE "root"
          IN  inv'[p] # inv[p] =>
                  /\ \A d \in Dirs \ {own} :
                        /\ state_file'[d] = state_file[d]
                        /\ feedback_file'[d] = feedback_file[d]
                        /\ decisions'[d] = decisions[d]
                  /\ inv[p].pc = "idle" =>
                        /\ inv'[p].pre_file = state_file[own]
                        /\ inv'[p].state = LoadOrDefault(state_file[own])]_vars

\* C16 witness: a cycle of session s1 with a blocking verdict has written its
\* watermark, feedback and journal record while session s2 and the project
\* directory hold what earlier cycles left there.
C16_Witness ==
    \E p \in Procs :
        /\ inv[p].pc = "journaled"
        /\ inv[p].session_id = Some("s1")
        /\ Watermark("s1") = Some(1)
        /\ \A d \in {"s2", "root"} :
              /\ state_file[d] = EarlierState
              /\ feedback_file[d] = EarlierFeedback
              /\ decisions[d] = EarlierJournal

\* ---------------------------------------------------------------------------
\* The engine invocation run on its own: claude::invoke and codex_llm::invoke.
\* call holds the invocation's position, the child process and the stdin pipe.
\* ---------------------------------------------------------------------------

\* the largest timeout, in sleeps of the poll loop
MaxTimeout == 2

\* the largest prompt, in blocks of the stdin pipe
MaxPrompt == 2

\* the blocks the stdin pipe holds before a write blocks
PipeCapacity == 1

Engines == {"claude", "codex"}

\* how the child ends when it ends: exit code 0 or a non-zero exit code
ExitStatuses == {"success", "failure"}

\* what the child leaves on stdout: the Claude reply object (result, session_id,
\* total_cost_usd), a JSON object with a string "result" and nothing else of the
\* reply, a JSON array with a "type":"result" entry, a JSON array without one,
\* Codex JSONL events with an agent_message, text that is not JSON, nothing
Stdouts == {"object", "error_object", "result_array", "array", "events", "text", "empty"}

\* what the child leaves on stderr: nothing, diagnostic text, text that holds
\* "429" or "usage_limit_reached"
Stderrs == {"empty", "text", "429"}

\* a value invoke returns: Ok or the error's variant, and for CommandFailed the
\* text its message is taken from
Result(type, carries) == [type |-> type, carries |-> carries]

InitInvoke ==
    /\ InitPipeline
    /\ \E engine \in Engines, timeout \in 1..MaxTimeout, prompt \in 1..MaxPrompt :
          call = [engine |-> engine, timeout |-> timeout, prompt |-> prompt,
                  pc |-> "start", child |-> "none", status |-> None,
                  stdout |-> "empty", stderr |-> "empty",
                  written |-> 0, in_pipe |-> 0, elapsed |-> 0,
                  returned |-> None]

\* is_available() (Codex only) and cmd.spawn()?; the Claude engine gives the
\* child no stdin and starts its timer at once
InvokeSpawn(available, spawned) ==
    /\ call.pc = "start"
    /\ call.engine = "claude" => available
    /\ call' = IF ~available
                 THEN [call EXCEPT !.pc = "returned",
                                   !.returned = Some(Result("NotInstalled", "none"))]
                 ELSE IF ~spawned
                 THEN [call EXCEPT !.child = "unspawned", !.pc = "returned",
                                   !.returned = Some(Result("IoError", "none"))]
                 ELSE [call EXCEPT !.child = "running",
                                   !.pc = IF call.engine = "codex"
                                            THEN "write" ELSE "poll"]
    /\ UNCHANGED pipeline

\* stdin.write_all: one more block goes into the pipe; the write blocks while
\* the pipe is full
WriteStdin ==
    /\ call.pc = "write"
    /\ call.written < call.prompt
    /\ call.child = "running"
    /\ call.in_pipe < PipeCapacity
    /\ call' = [call EXCEPT !.written = @ + 1, !.in_pipe = @ + 1]
    /\ UNCHANGED pipeline

\* stdin.write_all fails once the reading end is gone: the ? returns IoError
WriteBrokenPipe ==
    /\ call.pc = "write"
    /\ call.written < call.prompt
    /\ call.child = "exited"
    /\ call' = [call EXCEPT !.pc = "returned",
                            !.returned = Some(Result("IoError", "none"))]
    /\ UNCHANGED pipeline

\* drop(stdin); let start = Instant::now()
CloseStdin ==
    /\ call.pc = "write"
    /\ call.written = call.prompt
    /\ call' = [call EXCEPT !.pc = "poll", !.elapsed = 0]
    /\ UNCHANGED pipeline

\* a field of a JSON object that should hold a string: missing, null, a value
\* of another type, or the string
NoString(kind) == [kind |-> kind, text |-> ""]
String(text) == [kind |-> "string", text |-> text]

\* a JSON object: its type, its result, its session_id when that is a string,
\* its total_cost_usd when that is a number
JsonObject(type, result, session_id, total_cost_usd) ==
    [type |-> type, result |-> result, session_id |-> session_id,
     total_cost_usd |-> total_cost_usd]

\* stdout as serde_json sees it: one object, an array of objects, or neither
JsonOne(object) == [kind |-> "object", entries |-> << object >>]
JsonArray(entries) == [kind |-> "array", entries |-> entries]
NotJson == [kind |-> "text", entries |-> << >>]

\* serde_json::from_str::<ClaudeResponse>: the three fields are required
FromStrClaudeResponse(stdout) ==
    IF /\ stdout.kind = "object"
       /\ stdout.entries[1].result.kind = "string"
       /\ IsSome(stdout.entries[1].session_id)
       /\ IsSome(stdout.entries[1].total_cost_usd)
      THEN Some([result |-> stdout.entries[1].result.text,
                 session_id |-> Unwrap(stdout.entries[1].session_id),
                 total_cost_usd |-> Unwrap(stdout.entries[1].total_cost_usd)])
      ELSE None

\* a search for the result entry that starts at the front of the array
RECURSIVE FindResultEntryForward(_, _)
FindResultEntryForward(array, i) ==
    IF i = 0 \/ i > Len(array) THEN None
    ELSE LET entry == array[Len(array) + 1 - i]
         IN  IF entry.type = "result" /\ entry.result.kind = "string" /\ entry.result.text # ""
               THEN Some([result |-> entry.result.text,
                          session_id |-> IF IsSome(entry.session_id)
                                           THEN Unwrap(entry.session_id) ELSE "",
                          total_cost_usd |-> IF IsSome(entry.total_cost_usd)
                                               THEN Unwrap(entry.total_cost_usd) ELSE 0])
               ELSE FindResultEntryForward(array, i - 1)

\* for entry in array.iter().rev(): from entry i down to the first one
RECURSIVE FindResultEntry(_, _)
FindResultEntry(array, i) ==
    IF i = 0 THEN None
    ELSE LET entry == array[i]
         IN  IF entry.type = "result" /\ entry.result.kind = "string" /\ entry.result.text # ""
               THEN Some([result |-> entry.result.text,
                          session_id |-> IF IsSome(entry.session_id)
                                           THEN Unwrap(entry.session_id) ELSE "",
                          total_cost_usd |-> IF IsSome(entry.total_cost_usd)
                                               THEN Unwrap(entry.total_cost_usd) ELSE 0])
               ELSE FindResultEntry(array, i - 1)

\* parse_claude_response: the single object, else the array searched for its
\* result entry, else the error of the single-object parse
ParseClaudeResponse(stdout) ==
    IF IsSome(FromStrClaudeResponse(stdout))
      THEN [type |-> "Ok", carries |-> "none", response |-> FromStrClaudeResponse(stdout)]
    ELSE IF stdout.kind = "array"
      THEN LET found == FindResultEntry(stdout.entries, Len(stdout.entries))
           IN  IF IsSome(found)
                 THEN [type |-> "Ok", carries |-> "none", response |-> found]
                 ELSE [type |-> "CommandFailed", carries |-> "no result entry",
                       response |-> None]
    ELSE [type |-> "ParseError", carries |-> "none", response |-> None]

\* the JSON of each stdout the child may leave
StdoutJson(stdout) ==
    CASE stdout = "object" ->
             JsonOne(JsonObject("result", String("reply"), Some("engine"), Some(1)))
      [] stdout = "error_object" ->
             JsonOne(JsonObject("result", String("failed"), None, None))
      [] stdout = "result_array" ->
             JsonArray(<< JsonObject("system", NoString("missing"), Some("engine"), None),
                          JsonObject("result", String("reply"), Some("engine"), Some(1)) >>)
      [] stdout = "array" ->
             JsonArray(<< JsonObject("system", NoString("missing"), Some("engine"), None) >>)
      [] OTHER -> NotJson

\* parse_codex_output: the text of the agent_message events, an error when
\* there is none
ParseCodexOutput(stdout) ==
    IF stdout = "events" THEN Result("Ok", "none") ELSE Result("ParseError", "none")

\* json.get("result").and_then(|r| r.as_str()) of stdout parsed as a JSON value
EmbeddedResult(stdout) ==
    /\ StdoutJson(stdout).kind = "object"
    /\ StdoutJson(stdout).entries[1].result.kind = "string"

\* the Some(status) arm of claude::invoke
ClaudeResult(status, stdout, stderr) ==
    IF status # "success"
      THEN IF EmbeddedResult(stdout)
             THEN Result("CommandFailed", "result")
             ELSE IF stderr = "empty"
                    THEN Result("CommandFailed", "stdout")
                    ELSE Result("CommandFailed", "stderr")
      ELSE LET parsed == ParseClaudeResponse(StdoutJson(stdout))
           IN  Result(parsed.type, parsed.carries)

\* the Some(status) arm of codex_llm::invoke
CodexResult(status, stdout, stderr) ==
    IF status # "success"
      THEN IF stderr = "429"
             THEN Result("RateLimited", "none")
             ELSE Result("CommandFailed", "stderr")
      ELSE ParseCodexOutput(stdout)

\* what invoke returns for an exited child
ResultOf(engine, status, stdout, stderr) ==
    IF engine = "claude"
      THEN ClaudeResult(status, stdout, stderr)
      ELSE CodexResult(status, stdout, stderr)

\* child.try_wait() gives Some(status): wait_with_output, then the result
TryWaitSome ==
    /\ call.pc = "poll"
    /\ call.child = "exited"
    /\ call' = [call EXCEPT !.child = "reaped", !.pc = "returned",
                            !.returned = Some(ResultOf(call.engine, Unwrap(call.status),
                                                       call.stdout, call.stderr))]
    /\ UNCHANGED pipeline

\* child.try_wait() gives None: start.elapsed() > timeout decides
TryWaitNone ==
    /\ call.pc = "poll"
    /\ call.child = "running"
    /\ call' = [call EXCEPT !.pc = IF call.elapsed > call.timeout
                                     THEN "kill" ELSE "sleep"]
    /\ UNCHANGED pipeline

\* thread::sleep(Duration::from_millis(100))
SleepPoll ==
    /\ call.pc = "sleep"
    /\ call' = [call EXCEPT !.pc = "poll",
                            !.elapsed = IF @ > call.timeout THEN @ ELSE @ + 1]
    /\ UNCHANGED pipeline

\* let _ = child.kill(): the error for a child that has just exited is dropped
KillChild ==
    /\ call.pc = "kill"
    /\ call' = [call EXCEPT !.pc = "reap",
                            !.child = IF @ = "running" THEN "killed" ELSE @]
    /\ UNCHANGED pipeline

\* let _ = child.wait(); return Err(Timeout(timeout))
ReapChild ==
    /\ call.pc = "reap"
    /\ call' = [call EXCEPT !.child = "reaped", !.pc = "returned",
                            !.returned = Some(Result("Timeout", "none"))]
    /\ UNCHANGED pipeline

\* the child takes a block of the prompt from its stdin
ChildRead ==
    /\ call.child = "running"
    /\ call.in_pipe > 0
    /\ call' = [call EXCEPT !.in_pipe = @ - 1]
    /\ UNCHANGED pipeline

\* the child exits by itself
ChildExit(status, stdout, stderr) ==
    /\ call.child = "running"
    /\ call' = [call EXCEPT !.child = "exited", !.status = Some(status),
                            !.stdout = stdout, !.stderr = stderr]
    /\ UNCHANGED pipeline

\* the steps of the thread that runs invoke
InvokeStep ==
    \/ \E available \in BOOLEAN, spawned \in BOOLEAN : InvokeSpawn(available, spawned)
    \/ WriteStdin
    \/ WriteBrokenPipe
    \/ CloseStdin
    \/ TryWaitSome
    \/ TryWaitNone
    \/ SleepPoll
    \/ KillChild
    \/ ReapChild

NextInvoke ==
    \/ InvokeStep
    \/ ChildRead
    \/ \E status \in ExitStatuses, stdout \in Stdouts, stderr \in Stderrs :
          ChildExit(status, stdout, stderr)

SpecInvoke == InitInvoke /\ [][NextInvoke]_vars

\* the invoking thread is scheduled and its sleeps end; the child owes nothing:
\* it need not read its stdin and need not exit
SpecInvokeFair == SpecInvoke /\ WF_vars(InvokeStep)

\* C18: the engine invocation always terminates: for the Claude engine and for
\* the Codex engine, invoke eventually returns, whatever the child does
C18_InvokeTerminates == <>(call.pc = "returned")

\* the payload of a zero exit that the engine's parser accepts
Parseable29(engine, stdout) ==
    IF engine = "claude" THEN stdout \in {"object", "result_array"} ELSE stdout = "events"

\* the failure a non-zero exit is stated to yield
StatedFailure(engine, stdout, stderr) ==
    IF engine = "codex" /\ stderr = "429"
      THEN Result("RateLimited", "none")
      ELSE IF EmbeddedResult(stdout)
             THEN Result("CommandFailed", "result")
             ELSE IF stderr # "empty"
                    THEN Result("CommandFailed", "stderr")
                    ELSE Result("CommandFailed", "stdout")

\* C29: external-call failures are returned as distinct typed errors: a child
\* killed at the timeout yields Timeout, a non-zero exit yields CommandFailed
\* carrying the embedded result of a JSON stdout, else stderr, else stdout (and
\* RateLimited for Codex when stderr reports a 429), a zero exit with an
\* unparseable payload yields ParseError, a spawn failure yields IoError, and
\* no failure is returned as Ok
C29_TypedErrors ==
    call.pc = "returned" =>
        LET r == Unwrap(call.returned) IN
        /\ call.child = "unspawned" => r.type = "IoError"
        /\ call.child = "reaped" /\ ~IsSome(call.status) => r.type = "Timeout"
        /\ IsSome(call.status) /\ r.type # "Timeout" =>
              IF Unwrap(call.status) # "success"
                THEN r = StatedFailure(call.engine, call.stdout, call.stderr)
                ELSE ~Parseable29(call.engine, call.stdout) => r.type = "ParseError"
        /\ r.type = "Ok" =>
              /\ call.status = Some("success")
              /\ Parseable29(call.engine, call.stdout)

\* ---------------------------------------------------------------------------
\* parse_decision_response on replies with a long tail: a plain decision line
\* followed by up to MaxTailLines lines.
\* ---------------------------------------------------------------------------

\* most lines after the decision line
MaxTailLines == 4

\* the lines that follow the decision line
TailLines ==
    { << >>, << " " >>, << "CONFIDENCE:", " ", "HIGH" >>, << " ", "CONFIDENCE:", " ", "low" >>,
      << "CONFIDENCE:", " ", "MAYBE" >>, << "Great work", "." >>, << CodeFence >> }

\* the reply: DECISION: ALLOW or BLOCK, then the tail
InitTail ==
    /\ InitPipeline
    /\ \E v \in Verdicts, ls \in SeqsUpTo(TailLines, MaxTailLines) :
          call = [response |-> JoinLines(<< << "DECISION:", " ", v >> >> \o ls),
                  returned |-> None]

NextTail == CallParseDecisionResponse

SpecTail == InitTail /\ [][NextTail]_vars

\* the first non-blank line among the three lines after line d, if any
FirstNonBlank(lines, d) ==
    LET nb == {j \in (d + 1)..(d + 3) : j <= Len(lines) /\ Len(Trim(lines[j])) > 0}
    IN  IF nb = {} THEN None ELSE Some(First(nb))

\* the confidence a line states: CONFIDENCE: followed by High, Medium or Low
StatedConfidence(line) ==
    LET t == Trim(line)
    IN  IF Len(t) > 0 /\ t[1] = "CONFIDENCE:"
           /\ ToUppercase(Trim(Tail(t))) \in {<< "HIGH" >>, << "MEDIUM" >>, << "LOW" >>}
        THEN Some(ToUppercase(Trim(Tail(t)))[1])
        ELSE None

\* C21: when the first non-blank line within three lines of the decision line
\* states a confidence, that confidence is returned and the body is what follows
\* that line; otherwise the confidence is None and the body starts at the first
\* non-blank line after the decision line.
C21_ConfidenceExtraction ==
    IsSome(call.returned) =>
        LET lines == Lines(call.response)
            d == First(DecisionIdx(lines))
            f == FirstNonBlank(lines, d)
            stated == IF IsSome(f) THEN StatedConfidence(lines[Unwrap(f)]) ELSE None
        IN  IF IsSome(stated)
            THEN /\ Verdict.confidence = stated
                 /\ Verdict.feedback = FeedbackBody(lines, Unwrap(f) + 1)
            ELSE /\ Verdict.confidence = None
                 /\ Verdict.feedback = FeedbackBody(lines, IF IsSome(f) THEN Unwrap(f) ELSE d + 1)

\* a confidence line that follows a blank line was consumed
C21_Witness ==
    /\ IsSome(call.returned)
    /\ LET lines == Lines(call.response)
       IN  /\ Len(lines) >= 4
           /\ Len(lines[2]) = 0
           /\ Verdict.confidence = Some("LOW")
           /\ Verdict.feedback = << "Great work", "." >>

\* the number of blank lines a sequence of lines starts with
LeadingBlank(ls) ==
    LET blank == {k \in 0..Len(ls) : \A j \in 1..k : Len(Trim(ls[j])) = 0}
    IN  CHOOSE k \in blank : \A m \in blank : m <= k

\* a text without its one trailing code fence, if it has one
WithoutFenceCloser(t) ==
    IF Len(t) > 0 /\ t[Len(t)] = CodeFence THEN SubSeq(t, 1, Len(t) - 1) ELSE t

\* the reply DECISION: ALLOW, blank line, Great work.
GreatWork == << "DECISION:", " ", "ALLOW", "\n", "\n", "Great work", "." >>

\* C22: the feedback body is the text after the decision line and the consumed
\* confidence line, without its leading blank lines, trimmed, without one
\* trailing code fence, trimmed again; the reply DECISION: ALLOW, blank line,
\* Great work. gives (false, "Great work.", None); parsing the reply again
\* gives the same triple.
C22_FeedbackBodyExtraction ==
    IsSome(call.returned) =>
        LET lines == Lines(call.response)
            d == First(DecisionIdx(lines))
            start == IF IsSome(Verdict.confidence)
                       THEN Unwrap(FirstNonBlank(lines, d)) + 1 ELSE d + 1
            rest == SubSeq(lines, start, Len(lines))
            text == JoinLines(SubSeq(rest, LeadingBlank(rest) + 1, Len(rest)))
        IN  /\ Verdict.feedback = Trim(WithoutFenceCloser(Trim(text)))
            /\ call.response = GreatWork =>
                  Verdict = [has_concerns |-> FALSE,
                             feedback |-> << "Great work", "." >>,
                             confidence |-> None]
            /\ ParseDecisionResponse(call.response) = Verdict

\* a body behind a consumed confidence line and blank lines lost its closing fence
C22_Witness ==
    /\ IsSome(call.returned)
    /\ LET lines == Lines(call.response)
       IN  /\ Len(lines) = 5
           /\ Len(Trim(lines[3])) = 0
           /\ lines[5] = << CodeFence >>
           /\ Verdict.confidence = Some("HIGH")
           /\ Verdict.feedback = << "Great work", "." >>

\* C23: a reply without a DECISION: line is non-blocking exactly when the whole
\* text is "no concerns" or "no concerns." in any case; the feedback is the
\* reply text unchanged and the confidence is None.
C23_LegacyFallback ==
    (IsSome(call.returned) /\ DecisionIdx(Lines(call.response)) = {}) =>
        /\ ~Verdict.has_concerns <=>
              ToUppercase(call.response) \in {<< "NO CONCERNS" >>, << "NO CONCERNS", "." >>}
        /\ Verdict.feedback = call.response
        /\ Verdict.confidence = None

\* a reply of two lines without DECISION: that starts with a blank line and
\* came back whole, as a blocking verdict
C23_Witness ==
    /\ IsSome(call.returned)
    /\ LET lines == Lines(call.response)
       IN  /\ DecisionIdx(lines) = {}
           /\ Len(lines) = 2
           /\ lines[1] = << >>
           /\ lines[2] = << "no concerns" >>
    /\ Verdict.has_concerns
    /\ Verdict.feedback = call.response

\* C24: read_all after Journal::write returns the decision just written, with
\* the same type, timestamp, context, session id and trigger.
C24_JournalRoundTrip ==
    (IsSome(call.returned) /\ IsSome(call.last)) =>
        /\ Unwrap(call.returned).ok
        /\ \E i \in 1..Len(Unwrap(call.returned).decisions) :
              LET d == Unwrap(call.returned).decisions[i]
                  w == Unwrap(call.last)
              IN  /\ d.decision_type = w.decision_type
                  /\ d.timestamp = w.timestamp
                  /\ d.context = w.context
                  /\ d.session_id = w.session_id
                  /\ d.trigger = w.trigger

\* a decision stamped between two full seconds, whose context is the text
\* "null", was written and read back
C24_Witness ==
    /\ IsSome(call.returned)
    /\ IsSome(call.last)
    /\ Unwrap(call.last).timestamp % TicksPerSecond # 0
    /\ Unwrap(call.last).context = Some(<< "null" >>)
    /\ Unwrap(call.last) \in Range(Unwrap(call.returned).decisions)

\* ---------------------------------------------------------------------------
\* Journal::read_all on a decisions directory that also holds files the journal
\* did not write. call holds whether the directory exists and what read_all
\* returned.
\* ---------------------------------------------------------------------------

\* files that something else than Journal::write leaves in the directory: YAML
\* text that is no Decision, bytes that are no text, a file that is no .yaml
ForeignFiles ==
    { [name |-> [stem |-> -1, ext |-> "yaml"], content |-> Malformed],
      [name |-> [stem |-> -2, ext |-> "yaml"], content |-> NotUtf8],
      [name |-> [stem |-> -3, ext |-> "txt"], content |-> Malformed] }

InitRecords ==
    /\ InitPipeline
    /\ call = [exists |-> FALSE, returned |-> None]

\* journal.write(&Decision::feedback_delivered(None, context)): ensure_dir, then
\* the record file
RecordsWrite(context) ==
    /\ decisions' = [decisions EXCEPT ![Queue] =
                         JournalWrite(@, FeedbackDelivered(None, context))]
    /\ call' = [exists |-> TRUE, returned |-> None]
    /\ UNCHANGED << now, transcript, state_file, feedback_file, inv, hist >>

\* a file appears in the directory, or its content is replaced
RecordsForeign(file) ==
    /\ call.exists
    /\ file \notin decisions[Queue]
    /\ decisions' = [decisions EXCEPT ![Queue] =
                         {f \in @ : f.name # file.name} \cup {file}]
    /\ call' = [call EXCEPT !.returned = None]
    /\ UNCHANGED << now, transcript, state_file, feedback_file, inv, hist >>

\* journal.read_all(): an empty list when the directory does not exist
RecordsReadAll ==
    /\ call.returned = None
    /\ call' = [call EXCEPT !.returned =
                   Some(IF call.exists THEN ReadAll(decisions[Queue])
                        ELSE [ok |-> TRUE, decisions |-> << >>])]
    /\ UNCHANGED pipeline

NextRecords ==
    \/ TickJournal
    \/ \E c \in Contexts : RecordsWrite(c)
    \/ \E file \in ForeignFiles : RecordsForeign(file)
    \/ RecordsReadAll

SpecRecords == InitRecords /\ [][NextRecords]_vars

\* the record files of a directory that parse as a Decision
Parseable(dir) ==
    {f \in dir : f.name.ext = "yaml" /\ f.content.kind = "yaml" /\ IsSome(FromYaml(f.content))}

\* C25: read_all succeeds whatever the files of the directory are, returns one
\* decision for each record file that parses and nothing else, oldest first;
\* without a directory it returns the empty list.
C25_ReadAllBestEffort ==
    IsSome(call.returned) =>
        LET got == Unwrap(call.returned)
        IN  /\ got.ok
            /\ Len(got.decisions) = Cardinality(Parseable(decisions[Queue]))
            /\ Range(got.decisions) =
                   {Unwrap(FromYaml(f.content)) : f \in Parseable(decisions[Queue])}
            /\ \A i, j \in 1..Len(got.decisions) :
                   i < j => got.decisions[i].timestamp <= got.decisions[j].timestamp
            /\ ~call.exists => got.decisions = << >>

\* ---------------------------------------------------------------------------
\* StateManager on its own: load and save on the state directories, none of
\* which holds a state.json at the start. call holds the State last saved to
\* each directory and what the last load returned.
\* ---------------------------------------------------------------------------

\* the latest watermark handed to save, in ticks
MaxStateTime == 3

\* the values of State
States ==
    [last_evaluated : {None} \cup {Some(t) : t \in 0..MaxStateTime}, disabled : BOOLEAN]

InitState ==
    /\ now = 0
    /\ transcript = << >>
    /\ state_file = [d \in Dirs |-> None]
    /\ feedback_file = [d \in Dirs |-> None]
    /\ decisions = [d \in Dirs |-> {}]
    /\ inv = [p \in Procs |-> IdleInv]
    /\ hist = [i \in 1..MaxEntries |-> [replied |-> 0, evaluated |-> 0]]
    /\ call = [saved |-> [d \in Dirs |-> None], dir |-> "root", returned |-> None]

\* StateManager::new(dir).load()
CallLoad(d) ==
    /\ call.returned = None
    /\ call' = [call EXCEPT !.dir = d, !.returned = Some(Load(state_file[d]))]
    /\ UNCHANGED pipeline

\* StateManager::new(dir).save(&w)
CallSave(d, w) ==
    /\ state_file' = [state_file EXCEPT ![d] = Save(w)]
    /\ call' = [call EXCEPT !.saved[d] = Some(w), !.returned = None]
    /\ UNCHANGED << now, transcript, feedback_file, decisions, inv, hist >>

NextState ==
    \/ \E d \in Dirs : CallLoad(d)
    \/ \E d \in Dirs, w \in States : CallSave(d, w)

SpecState == InitState /\ [][NextState]_vars

\* C26: a load leaves every state.json as it was; where there is no file it
\* returns Ok with the default State (no watermark, not disabled), and after
\* save(w) it returns Ok with w.
C26_LoadDefaultAndRoundTrip ==
    [][(call.returned = None /\ IsSome(call'.returned)) =>
          LET d == call'.dir
              got == Unwrap(call'.returned)
          IN  /\ state_file' = state_file
              /\ state_file[d] = None =>
                    /\ got.ok
                    /\ got.state = [last_evaluated |-> None, disabled |-> FALSE]
              /\ IsSome(call.saved[d]) =>
                    /\ got.ok
                    /\ got.state = Unwrap(call.saved[d])]_vars

\* a State with a watermark between two full seconds was saved and loaded, and
\* a directory without a file is still without one after a load of it
C26_Witness ==
    /\ IsSome(call.returned)
    /\ IsSome(call.saved["s1"])
    /\ call.dir = "s1"
    /\ IsSome(Unwrap(call.saved["s1"]).last_evaluated)
    /\ Unwrap(Unwrap(call.saved["s1"]).last_evaluated) % TicksPerSecond # 0
    /\ Unwrap(call.returned).state = Unwrap(call.saved["s1"])
    /\ state_file["s2"] = None

\* ---------------------------------------------------------------------------
\* The carryover block of evaluate_llm on its own: the journal of one session
\* is written, then the block is built from it. call holds the block built.
\* ---------------------------------------------------------------------------

\* last instant of the wall clock while the journal for the carryover is written
MaxCarryTime == 5

\* the largest carryover_decision_count
MaxCarryover == 2

\* the messages before the window: none, or some
RecentMessages == { << >>, << "earlier message" >> }

\* Iterator::rev
RECURSIVE Reverse(_)
Reverse(q) == IF Len(q) = 0 THEN << >> ELSE Reverse(Tail(q)) \o << q[1] >>

\* Iterator::filter on the decision type
RECURSIVE FilterType(_, _)
FilterType(q, type) ==
    IF Len(q) = 0 THEN << >>
    ELSE (IF q[1].decision_type = type THEN << q[1] >> ELSE << >>)
         \o FilterType(Tail(q), type)

\* Iterator::take
Take(q, n) == SubSeq(q, 1, IF n < Len(q) THEN n ELSE Len(q))

\* a selection that counts every decision toward the limit, then filters
RecentCounting(journal, count) ==
    FilterType(Take(Reverse(journal.decisions), count), "feedback_delivered")

\* decisions.iter().rev().filter(..).take(carryover_decision_count)
Recent(journal, count) ==
    Take(FilterType(Reverse(journal.decisions), "feedback_delivered"), count)

\* the line of one decision: its time of day and its context
DecisionLine(d) ==
    [time |-> d.timestamp,
     feedback |-> IF IsSome(d.context) THEN Unwrap(d.context) ELSE << "(no context)" >>]

\* lines 261-302: the parts of the carryover, from the journal, the limit and
\* the messages before the window
CarryoverParts(journal, count, messages) ==
    LET recent == IF journal.ok THEN Recent(journal, count) ELSE << >>
        shown == Reverse(recent)
    IN  (IF Len(recent) > 0
         THEN << [header |-> "Recent superego decisions:"] >>
              \o [i \in 1..Len(shown) |-> DecisionLine(shown[i])]
              \o << [header |-> ""] >>
         ELSE << >>)
        \o (IF Len(messages) > 0
            THEN << [header |-> "Recent activity (before current evaluation window):"],
                    [messages |-> messages] >>
            ELSE << >>)

\* lines 304-311: the block put in front of the conversation, empty without parts
CarryoverContext(parts) ==
    IF Len(parts) = 0 THEN << >>
    ELSE << [header |-> "--- PREVIOUS CONTEXT ---"] >> \o parts
         \o << [header |-> "--- END PREVIOUS CONTEXT ---"] >>

InitCarryover ==
    /\ InitPipeline
    /\ call = [returned |-> None]

\* the wall clock advances
TickCarryover ==
    /\ now < MaxCarryTime
    /\ now' = now + 1
    /\ UNCHANGED << transcript, state_file, feedback_file, decisions, inv, hist, call >>

\* an earlier cycle, or another command, writes a decision to the journal
CarryoverJournalWrite(decision) ==
    /\ decisions' = [decisions EXCEPT ![Queue] = JournalWrite(@, decision)]
    /\ call' = [returned |-> None]
    /\ UNCHANGED << now, transcript, state_file, feedback_file, inv, hist >>

\* evaluate_llm builds the carryover with carryover_decision_count = count
BuildCarryover(count, messages) ==
    /\ call.returned = None
    /\ call' = [returned |->
                   Some([count |-> count, messages |-> messages,
                         context |-> CarryoverContext(
                             CarryoverParts(ReadAll(decisions[Queue]), count, messages))])]
    /\ UNCHANGED pipeline

NextCarryover ==
    \/ TickCarryover
    \/ \E d \in JournalDecisions : CarryoverJournalWrite(d)
    \/ \E count \in 0..MaxCarryover, messages \in RecentMessages :
          BuildCarryover(count, messages)

SpecCarryover == InitCarryover /\ [][NextCarryover]_vars

\* the decisions of the journal that are of type feedback-delivered
Delivered == {d \in Range(ReadAll(decisions[Queue]).decisions) :
                 d.decision_type = "feedback_delivered"}

\* the decision lines of the block built
ListedLines ==
    LET c == Unwrap(call.returned).context
    IN  {i \in 1..Len(c) : "time" \in DOMAIN c[i]}

\* C27: the block lists one line for each feedback-delivered decision of the
\* journal that has fewer than N feedback-delivered decisions after it, and no
\* other decision, oldest first; without such a decision and without messages
\* before the window the block is empty.
C27_CarryoverDecisions ==
    IsSome(call.returned) =>
        LET c == Unwrap(call.returned).context
            n == Unwrap(call.returned).count
            expected == {d \in Delivered :
                            Cardinality({e \in Delivered : e.timestamp > d.timestamp}) < n}
        IN  /\ {c[i] : i \in ListedLines} = {DecisionLine(d) : d \in expected}
            /\ Cardinality(ListedLines) = Cardinality(expected)
            /\ \A i, j \in ListedLines : i < j => c[i].time < c[j].time
            /\ (expected = {} /\ Unwrap(call.returned).messages = << >>) => c = << >>

\* with N = 1 the block lists the latest feedback-delivered decision although a
\* decision of another type was written after it and one of its type before it
C27_Witness ==
    /\ IsSome(call.returned)
    /\ Unwrap(call.returned).count = 1
    /\ Cardinality(Delivered) = 2
    /\ Cardinality(ListedLines) = 1
    /\ Len(ReadAll(decisions[Queue]).decisions) = 3
    /\ ReadAll(decisions[Queue]).decisions[3].decision_type = "override_granted"

\* ---------------------------------------------------------------------------
\* evaluate_llm with writes that fail: one cycle in which each of the three
\* writes after the engine's reply either succeeds or returns Err. call holds
\* the writes that failed and whether the cycle is over.
\* ---------------------------------------------------------------------------

InitFaults ==
    /\ now = 1
    /\ transcript = MixedTranscript
    /\ \E used \in SUBSET Dirs :
          state_file = [d \in Dirs |-> IF d \in used THEN EarlierState ELSE None]
    /\ feedback_file = [d \in Dirs |-> None]
    /\ decisions = [d \in Dirs |-> {}]
    /\ inv = [p \in Procs |-> IdleInv]
    /\ hist = [i \in 1..MaxEntries |-> [replied |-> 0, evaluated |-> 0]]
    /\ call = [failed |-> {}, over |-> FALSE]

\* lines 380-382: state_mgr.update(..) returns Err, the warning is printed;
\* state.json is as it was, or was truncated by File::create
MarkEvaluatedFails(p, truncated) ==
    /\ inv[p].pc = "responded"
    /\ state_file' = [state_file EXCEPT ![SessionDir(inv[p].session_id)] =
                          IF truncated THEN Some([valid |-> FALSE, json |-> ToJson(DefaultState)])
                          ELSE @]
    /\ inv' = [inv EXCEPT ![p].pc = "marked"]
    /\ call' = [call EXCEPT !.failed = @ \cup {"state"}]
    /\ UNCHANGED << now, transcript, feedback_file, decisions, hist >>

\* a failed queue.write that is propagated as the error of evaluate_llm
WriteFeedbackFailsAborts(p, truncated) ==
    /\ inv[p].pc = "parsed"
    /\ Unwrap(inv[p].verdict).has_concerns
    /\ inv' = [inv EXCEPT ![p].pc = "done", ![p].result = Some(ClaudeFailure("IoError"))]
    /\ call' = [call EXCEPT !.failed = @ \cup {"feedback"}]
    /\ UNCHANGED << now, transcript, state_file, feedback_file, decisions, hist >>

\* lines 398-401: queue.write(&fb) returns Err, the feedback is printed; the
\* feedback file is as it was, or was truncated
WriteFeedbackFails(p, truncated) ==
    /\ inv[p].pc = "parsed"
    /\ Unwrap(inv[p].verdict).has_concerns
    /\ feedback_file' = [feedback_file EXCEPT ![SessionDir(inv[p].session_id)] =
                             IF truncated THEN Some(<< >>) ELSE @]
    /\ inv' = [inv EXCEPT ![p].pc = "fed"]
    /\ call' = [call EXCEPT !.failed = @ \cup {"feedback"}]
    /\ UNCHANGED << now, transcript, state_file, decisions, hist >>

\* lines 406-408: journal.write(&decision) returns Err, the warning is printed;
\* the directory is as it was, or holds a record file cut short
WriteJournalFails(p, truncated) ==
    /\ inv[p].pc = "fed"
    /\ decisions' = [decisions EXCEPT ![SessionDir(inv[p].session_id)] =
                         IF truncated
                         THEN {f \in @ : f.name # RecordPath(now)}
                                  \cup {[name |-> RecordPath(now), content |-> Malformed]}
                         ELSE @]
    /\ inv' = [inv EXCEPT ![p].pc = "journaled"]
    /\ call' = [call EXCEPT !.failed = @ \cup {"journal"}]
    /\ UNCHANGED << now, transcript, state_file, feedback_file, hist >>

\* the process of the invocation ends after evaluate_llm returned
ExitFaults(p) ==
    /\ inv[p].pc = "done"
    /\ inv' = [inv EXCEPT ![p] = IdleInv]
    /\ call' = [failed |-> {}, over |-> TRUE]
    /\ UNCHANGED << now, transcript, state_file, feedback_file, decisions, hist >>

NextFaults ==
    \/ \E sid \in SessionArgs : AllIdle /\ ~call.over /\ Start(1, sid)
    \/ CaptureReadTime(1)
    \/ ReadTranscript(1)
    \/ \E reply \in Replies : InvokeOk(1, reply)
    \/ MarkEvaluated(1)
    \/ \E truncated \in BOOLEAN : MarkEvaluatedFails(1, truncated)
    \/ ParseResponse(1)
    \/ WriteFeedback(1)
    \/ \E truncated \in BOOLEAN : WriteFeedbackFails(1, truncated)
    \/ WriteJournal(1)
    \/ \E truncated \in BOOLEAN : WriteJournalFails(1, truncated)
    \/ Return(1)
    \/ ExitFaults(1)

SpecFaults == InitFaults /\ [][NextFaults]_vars

\* C28: when a cycle with a blocking verdict has returned, it returned Ok with
\* the verdict, and every write that did not fail itself took place: the
\* feedback is in the mailbox, the record is in the journal, the watermark is
\* the read time, whichever of the other writes failed.
C28_PartialFailureWrites ==
    \A p \in Procs :
        (inv[p].pc = "done" /\ IsSome(inv[p].verdict) /\ Unwrap(inv[p].verdict).has_concerns) =>
            LET v == Unwrap(inv[p].verdict)
                r == Unwrap(inv[p].result)
            IN  /\ r.ok
                /\ r.has_concerns
                /\ r.feedback = v.feedback
                /\ r.confidence = v.confidence
                /\ "feedback" \notin call.failed =>
                       feedback_file[DirOf(p)] = FeedbackWrite(FeedbackWithConfidence(v))
                /\ "journal" \notin call.failed =>
                       \E f \in decisions[DirOf(p)] :
                           /\ IsSome(FromYaml(f.content))
                           /\ Unwrap(FromYaml(f.content)).context = Some(v.feedback)
                /\ "state" \notin call.failed =>
                       Watermark(DirOf(p)) = Some(inv[p].transcript_read_at)

\* a cycle returned its blocking verdict after the mailbox write alone had
\* failed: the journal holds the record and the watermark is the read time
C28_Witness ==
    /\ inv[1].pc = "done"
    /\ IsSome(inv[1].verdict)
    /\ Unwrap(inv[1].verdict).has_concerns
    /\ call.failed = {"feedback"}
    /\ feedback_file[DirOf(1)] = None
    /\ decisions[DirOf(1)] # {}
    /\ Watermark(DirOf(1)) = Some(inv[1].transcript_read_at)

\* ---------------------------------------------------------------------------
\* dedupe_system_reminders run on its own. A text is a sequence of fragments;
\* a tag is two fragments long, so that taking a block out of a text can bring
\* the two halves of a tag together.
\* ---------------------------------------------------------------------------

\* most pieces of a text
MaxPieces == 7

\* const OPEN: &str = "<system-reminder>"
OPEN == << "<system-", "reminder>" >>

\* const CLOSE: &str = "</system-reminder>"
CLOSE == << "</system-", "reminder>" >>

\* what a text is put together from: the tags, the halves of a tag, whitespace
Pieces == {OPEN, CLOSE, << "<system-" >>, << "reminder>" >>, << " " >>}

\* the text of test_dedupe_system_reminders_three
ThreeReminders ==
    OPEN \o << "1" >> \o CLOSE \o << "A" >> \o OPEN \o << "2" >> \o CLOSE \o << "B" >>
         \o OPEN \o << "3" >> \o CLOSE

RECURSIVE Flatten(_)
Flatten(pieces) ==
    IF Len(pieces) = 0 THEN << >> ELSE Head(pieces) \o Flatten(Tail(pieces))

\* text[from..].find(pat): the first position at or after from where pat
\* starts, 0 for None
RECURSIVE Find(_, _, _)
Find(text, pat, from) ==
    IF from + Len(pat) - 1 > Len(text) THEN 0
    ELSE IF SubSeq(text, from, from + Len(pat) - 1) = pat THEN from
    ELSE Find(text, pat, from + 1)

\* the while loop: the blocks as (open_pos, close_end) pairs, close_end being
\* the position after the closing tag
RECURSIVE FindBlocks(_, _, _)
FindBlocks(text, search_start, blocks) ==
    LET open_pos == Find(text, OPEN, search_start)
        after_open == open_pos + Len(OPEN)
        close_pos == Find(text, CLOSE, after_open)
        close_end == close_pos + Len(CLOSE)
    IN  IF open_pos = 0 \/ close_pos = 0
          THEN blocks
          ELSE FindBlocks(text, close_end, Append(blocks, << open_pos, close_end >>))

\* the for loop over the blocks to remove, then the rest of the text
RECURSIVE CopyAround(_, _, _, _)
CopyAround(text, blocks, prev_end, result) ==
    IF Len(blocks) = 0
      THEN result \o SubSeq(text, prev_end, Len(text))
      ELSE CopyAround(text, Tail(blocks), Head(blocks)[2],
                      result \o SubSeq(text, prev_end, Head(blocks)[1] - 1))

\* dedupe_system_reminders
DedupeSystemReminders(text) ==
    LET blocks == FindBlocks(text, 1, << >>)
    IN  IF Len(blocks) <= 1
          THEN Trim(text)
          ELSE Trim(CopyAround(text, SubSeq(blocks, 1, Len(blocks) - 1), 1, << >>))

InitDedupe ==
    /\ InitPipeline
    /\ \/ \E pieces \in SeqsUpTo(Pieces, MaxPieces) :
             call = [text |-> Flatten(pieces), once |-> None, twice |-> None]
       \/ call = [text |-> ThreeReminders, once |-> None, twice |-> None]

\* dedupe_system_reminders(text)
CallDedupe ==
    /\ ~IsSome(call.once)
    /\ call' = [call EXCEPT !.once = Some(DedupeSystemReminders(call.text))]
    /\ UNCHANGED pipeline

\* dedupe_system_reminders of the text it returned
CallDedupeAgain ==
    /\ IsSome(call.once)
    /\ ~IsSome(call.twice)
    /\ call' = [call EXCEPT !.twice = Some(DedupeSystemReminders(Unwrap(call.once)))]
    /\ UNCHANGED pipeline

NextDedupe ==
    \/ CallDedupe
    \/ CallDedupeAgain

SpecDedupe == InitDedupe /\ [][NextDedupe]_vars

\* the positions of the first k-1 of the text's k complete blocks
RemovedPositions(text) ==
    LET blocks == FindBlocks(text, 1, << >>)
    IN  UNION { blocks[i][1]..(blocks[i][2] - 1) : i \in 1..(Len(blocks) - 1) }

\* the text without the fragments at the given positions
RECURSIVE WithoutPositions(_, _, _)
WithoutPositions(text, positions, i) ==
    IF i > Len(text) THEN << >>
    ELSE (IF i \in positions THEN << >> ELSE << text[i] >>) \o WithoutPositions(text, positions, i + 1)

\* C30: reminder deduplication: a text with at most one complete reminder
\* block comes back trimmed and otherwise unchanged, a text with k >= 2 blocks
\* comes back without its first k-1 blocks, the last block and all prose kept
\* in order (blocks 1, 2, 3 around prose A and B give AB and block 3), and
\* applying the function twice gives what applying it once gives
C30_ReminderDedupe ==
    /\ IsSome(call.once) =>
          Unwrap(call.once) = Trim(WithoutPositions(call.text, RemovedPositions(call.text), 1))
    /\ IsSome(call.once) /\ call.text = ThreeReminders =>
          Unwrap(call.once) = << "A", "B" >> \o OPEN \o << "3" >> \o CLOSE
    /\ IsSome(call.twice) => call.twice = call.once

\* ---------------------------------------------------------------------------
\* Two evaluate_llm cycles of one session that overlap, with StateManager::update
\* as the load, the closure and the save it is made of, and a third process that
\* sets the disabled flag through the same update. The engine calls succeed;
\* call holds the three processes and the largest watermark stored so far.
\* ---------------------------------------------------------------------------

\* the last instant of the wall clock
MaxOverlapTime == 2

\* the state directory the cycles share
OverlapDir == SessionDir(Session)

IdleCycle == [pc |-> "idle", state |-> DefaultState, transcript_read_at |-> 0,
              loaded |-> DefaultState]

InitOverlap ==
    /\ InitPipeline
    /\ call = [cycles |-> [p \in Procs |-> IdleCycle],
               flag |-> [pc |-> "idle", loaded |-> DefaultState],
               stored_max |-> -1]

TickOverlap ==
    /\ now < MaxOverlapTime
    /\ now' = now + 1
    /\ UNCHANGED << transcript, state_file, feedback_file, decisions, inv, hist, call >>

\* state_mgr.load().unwrap_or_default()
OverlapLoad(p) ==
    /\ call.cycles[p].pc = "idle"
    /\ call' = [call EXCEPT !.cycles[p].pc = "loaded",
                            !.cycles[p].state = LoadOrDefault(state_file[OverlapDir])]
    /\ UNCHANGED pipeline

\* let transcript_read_at = chrono::Utc::now(); then the engine call
OverlapCapture(p) ==
    /\ call.cycles[p].pc = "loaded"
    /\ call' = [call EXCEPT !.cycles[p].pc = "responded",
                            !.cycles[p].transcript_read_at = now]
    /\ UNCHANGED pipeline

\* update: let mut state = self.load()?
OverlapUpdateLoad(p) ==
    /\ call.cycles[p].pc = "responded"
    /\ call' = IF Load(state_file[OverlapDir]).ok
                 THEN [call EXCEPT !.cycles[p].pc = "updating",
                                   !.cycles[p].loaded = Load(state_file[OverlapDir]).state]
                 ELSE [call EXCEPT !.cycles[p].pc = "done"]
    /\ UNCHANGED pipeline

\* update: f(&mut state); self.save(&state)?
OverlapUpdateSave(p) ==
    /\ call.cycles[p].pc = "updating"
    /\ LET state == MarkEvaluatedAt(call.cycles[p].loaded, call.cycles[p].transcript_read_at)
       IN  /\ state_file' = [state_file EXCEPT ![OverlapDir] = Save(state)]
           /\ call' = [call EXCEPT !.cycles[p].pc = "done",
                                   !.stored_max = IF Unwrap(state.last_evaluated) > @
                                                    THEN Unwrap(state.last_evaluated) ELSE @]
    /\ UNCHANGED << now, transcript, feedback_file, decisions, inv, hist >>

\* update(|s| s.disabled = true): let mut state = self.load()?
FlagUpdateLoad ==
    /\ call.flag.pc = "idle"
    /\ call' = IF Load(state_file[OverlapDir]).ok
                 THEN [call EXCEPT !.flag.pc = "updating",
                                   !.flag.loaded = Load(state_file[OverlapDir]).state]
                 ELSE [call EXCEPT !.flag.pc = "done"]
    /\ UNCHANGED pipeline

\* update(|s| s.disabled = true): f(&mut state); self.save(&state)?
FlagUpdateSave ==
    /\ call.flag.pc = "updating"
    /\ state_file' = [state_file EXCEPT ![OverlapDir] =
                          Save([call.flag.loaded EXCEPT !.disabled = TRUE])]
    /\ call' = [call EXCEPT !.flag.pc = "done"]
    /\ UNCHANGED << now, transcript, feedback_file, decisions, inv, hist >>

NextOverlap ==
    \/ TickOverlap
    \/ \E p \in Procs : OverlapLoad(p)
    \/ \E p \in Procs : OverlapCapture(p)
    \/ \E p \in Procs : OverlapUpdateLoad(p)
    \/ \E p \in Procs : OverlapUpdateSave(p)
    \/ FlagUpdateLoad
    \/ FlagUpdateSave

SpecOverlap == InitOverlap /\ [][NextOverlap]_vars

\* cycle p stores its state in this step
Saves(p) == call.cycles[p].pc = "updating" /\ call'.cycles[p].pc = "done"

InitAgree ==
    /\ InitPipeline
    /\ \E ls \in SeqsUpTo(ReplyLines, MaxReplyLines) :
          call = [response |-> JoinLines(ls), returned |-> None, has_concerns |-> None]

\* let has_concerns = !response.result.contains("DECISION: ALLOW")
CodexPrintVerdict ==
    /\ call.has_concerns = None
    /\ call' = [call EXCEPT !.has_concerns = Some(CodexHasConcerns(call.response))]
    /\ UNCHANGED pipeline

NextAgree ==
    \/ CallParseDecisionResponse
    \/ CodexPrintVerdict

SpecAgree == InitAgree /\ [][NextAgree]_vars

\* C36: verdict agreement between the two evaluation paths: for every reply the
\* EvaluateCodex path reports has_concerns = false exactly when
\* parse_decision_response returns non-blocking, and it lets no reply pass whose
\* first DECISION: line is BLOCK or an unrecognised token
C36_VerdictAgreement ==
    (IsSome(call.returned) /\ IsSome(call.has_concerns)) =>
        /\ Unwrap(call.has_concerns) = Unwrap(call.returned).has_concerns
        /\ LET lines == Lines(call.response)
               idx == DecisionIdx(lines)
           IN  (idx # {} /\ VerdictToken(lines[First(idx)]) # << "ALLOW" >>) =>
                   Unwrap(call.has_concerns)

\* ---------------------------------------------------------------------------
\* One FeedbackQueue::write by an evaluation process and one get_and_clear by
\* the consumer, step by step on the same feedback file, which may hold the
\* message of an earlier write. call holds the two processes, and as history
\* the content of the file that remove_file took away.
\* ---------------------------------------------------------------------------

InitRace ==
    /\ now = 0
    /\ transcript = << >>
    /\ state_file = [d \in Dirs |-> None]
    /\ decisions = [d \in Dirs |-> {}]
    /\ inv = [p \in Procs |-> IdleInv]
    /\ hist = [i \in 1..MaxEntries |-> [replied |-> 0, evaluated |-> 0]]
    /\ \E earlier \in {None} \cup {Some(m) : m \in Messages}, message \in Messages :
          /\ feedback_file = [d \in Dirs |-> IF d = Queue THEN earlier ELSE None]
          /\ call = [message |-> message, writer |-> "idle", linked |-> FALSE,
                     reader |-> "idle", content |-> None, returned |-> None,
                     removed |-> None]

\* fs::write: File::create leaves the file empty
WriterCreate ==
    /\ call.writer = "idle"
    /\ feedback_file' = [feedback_file EXCEPT ![Queue] = Some(<< >>)]
    /\ call' = [call EXCEPT !.writer = "writing", !.linked = TRUE]
    /\ UNCHANGED << now, transcript, state_file, decisions, inv, hist >>

\* fs::write: write_all into the file that was created, which is lost when the
\* file has been removed in between
WriterWriteAll ==
    /\ call.writer = "writing"
    /\ feedback_file' = IF call.linked
                          THEN [feedback_file EXCEPT ![Queue] = FeedbackWrite(call.message)]
                          ELSE feedback_file
    /\ call' = [call EXCEPT !.writer = "done"]
    /\ UNCHANGED << now, transcript, state_file, decisions, inv, hist >>

\* get_and_clear: if !self.has_feedback() { return None; }
ReaderHasFeedback ==
    /\ call.reader = "idle"
    /\ call' = [call EXCEPT !.reader = IF HasFeedback(feedback_file[Queue])
                                         THEN "reading" ELSE "done"]
    /\ UNCHANGED pipeline

\* get_and_clear: fs::read_to_string(&self.feedback_path).ok()?
ReaderRead ==
    /\ call.reader = "reading"
    /\ call' = [call EXCEPT !.reader = "removing", !.content = feedback_file[Queue]]
    /\ UNCHANGED pipeline

\* get_and_clear: let _ = fs::remove_file(&self.feedback_path); Some(content)
ReaderRemove ==
    /\ call.reader = "removing"
    /\ feedback_file' = [feedback_file EXCEPT ![Queue] = None]
    /\ call' = [call EXCEPT !.reader = "done", !.returned = call.content,
                            !.removed = feedback_file[Queue], !.linked = FALSE]
    /\ UNCHANGED << now, transcript, state_file, decisions, inv, hist >>

NextRace ==
    \/ WriterCreate
    \/ WriterWriteAll
    \/ ReaderHasFeedback
    \/ ReaderRead
    \/ ReaderRemove

SpecRace == InitRace /\ [][NextRace]_vars

\* C34: no feedback is lost between writer and reader: once the write and the
\* get_and_clear have both ended, the written message was returned or is still
\* pending, and get_and_clear has removed no content but the one it returned
C34_NoFeedbackLost ==
    /\ (call.writer = "done" /\ call.reader = "done") =>
          \/ call.returned = Some(call.message)
          \/ feedback_file[Queue] = Some(call.message)
    /\ call.reader = "done" => call.removed = call.returned

\* ---------------------------------------------------------------------------
\* evaluate_llm cycles, one at a time, in state directories whose state.json
\* may be a file that serde_json cannot read as a State.
\* ---------------------------------------------------------------------------

\* a state.json that is present and is no State
UnparseableState == Some([valid |-> FALSE, json |-> ToJson(DefaultState)])

InitRecovery ==
    /\ now = 1
    /\ transcript = MixedTranscript
    /\ \E broken \in SUBSET Dirs :
          state_file = [d \in Dirs |-> IF d \in broken THEN UnparseableState ELSE EarlierState]
    /\ feedback_file = [d \in Dirs |-> None]
    /\ decisions = [d \in Dirs |-> {}]
    /\ inv = [p \in Procs |-> IdleInv]
    /\ hist = [i \in 1..MaxEntries |-> [replied |-> 0, evaluated |-> 0]]
    /\ call = NoCall

\* cycles of the one session, one at a time
NextRecovery ==
    \/ AllIdle /\ Start(1, Session)
    \/ CaptureReadTime(1)
    \/ ReadTranscript(1)
    \/ \E reply \in Replies : InvokeOk(1, reply)
    \/ \E e \in ClaudeErrors : InvokeErr(1, e)
    \/ MarkEvaluated(1)
    \/ ParseResponse(1)
    \/ WriteFeedback(1)
    \/ WriteJournal(1)
    \/ Return(1)
    \/ Exit(1)
    \/ Kill(1)

SpecRecovery == InitRecovery /\ [][NextRecovery]_vars

\* C35: recovery from an unparseable watermark file: a cycle that found the
\* file present but unparseable works with the state of a session never
\* evaluated, its window holding every entry of the session, and once its
\* engine call has succeeded and the cycle has returned, the stored watermark
\* is valid and is the cycle's read time
C35_UnparseableWatermarkRecovery ==
    \A p \in Procs :
        (inv[p].pc = "done" /\ IsSome(inv[p].pre_file) /\ ~Unwrap(inv[p].pre_file).valid) =>
            /\ inv[p].state = DefaultState
            /\ inv[p].messages = GetMessagesSince(transcript, None, inv[p].session_id)
            /\ IsSome(inv[p].response) =>
                  /\ Load(state_file[DirOf(p)]).ok
                  /\ Watermark(DirOf(p)) = Some(inv[p].transcript_read_at)

\* ---------------------------------------------------------------------------
\* Frame conditions of evaluate_llm, checked on the cycles of Spec.
\* ---------------------------------------------------------------------------

\* invocation p takes a step
Steps(p) == inv'[p] # inv[p]

\* the files of every state directory are as they were
FilesUnchanged == UNCHANGED << state_file, feedback_file, decisions >>

\* C37: a cycle with no new content has no effect: its steps up to the early
\* return leave the watermark, the mailbox and the journal as they were, and
\* the return is a non-blocking result with zero cost, the engine not invoked
C37_EmptyWindowNoEffect ==
    [][\A p \in Procs :
          /\ (Steps(p) /\ inv[p].pc \in {"idle", "loaded", "captured"}) => FilesUnchanged
          /\ (Steps(p) /\ inv[p].pc = "captured" /\ inv'[p].pc # "idle"
                /\ GetMessagesSince(transcript, inv[p].state.last_evaluated,
                                    inv[p].session_id) = << >>) =>
                /\ inv'[p].pc = "done"
                /\ inv'[p].result = Some([ok |-> TRUE, has_concerns |-> FALSE,
                                          feedback |-> << "No concerns", "." >>,
                                          confidence |-> None, cost_usd |-> 0,
                                          error |-> "none"])
                /\ ~IsSome(inv'[p].response)
                /\ state_file'[DirOf(p)] = inv[p].pre_file]_vars

\* a cycle has returned early on a transcript that holds entries, all of them
\* at or before the stored watermark
C37_Witness ==
    /\ inv[1].pc = "done"
    /\ Len(transcript) > 0
    /\ Len(inv[1].messages) = 0
    /\ inv[1].result = Some(NothingNew)
    /\ IsSome(Watermark(DirOf(1)))

\* the reply of invocation p has been parsed as blocking
Blocking(p) == IsSome(inv[p].verdict) /\ Unwrap(inv[p].verdict).has_concerns

\* C38: a non-blocking verdict leaves the mailbox and the journal unchanged:
\* no step of a cycle whose reply is not parsed as blocking touches the
\* feedback file or the decisions, and once the reply is parsed as ALLOW the
\* watermark is not touched either
C38_AllowLeavesMailboxAndJournal ==
    [][\A p \in Procs :
          /\ (Steps(p) /\ ~Blocking(p)) => UNCHANGED << feedback_file, decisions >>
          /\ (Steps(p) /\ IsSome(inv[p].verdict) /\ ~Blocking(p)) => UNCHANGED state_file]_vars

\* a cycle with an ALLOW reply has returned: the feedback an earlier cycle left
\* pending is what get_and_clear returns, the journal holds the earlier record
\* only, and the watermark is the cycle's read time
C38_Witness ==
    /\ inv[1].pc = "done"
    /\ IsSome(inv[1].verdict)
    /\ ~Unwrap(inv[1].verdict).has_concerns
    /\ GetAndClear(feedback_file[DirOf(1)]).content = EarlierFeedback
    /\ decisions[DirOf(1)] = EarlierJournal
    /\ inv[1].pre_file = EarlierState
    /\ Watermark(DirOf(1)) = Some(inv[1].transcript_read_at)
    /\ Watermark(DirOf(1)) # LoadOrDefault(EarlierState).last_evaluated

\* ---------------------------------------------------------------------------
\* parse_claude_response run on its own, on one object, on arrays of up to
\* MaxPayloadEntries objects, and on text that is not JSON.
\* ---------------------------------------------------------------------------

\* most entries of an array
MaxPayloadEntries == 2

\* the result field of an object
ResultFields ==
    {NoString("missing"), NoString("null"), NoString("number"),
     String(""), String("first"), String("second")}

\* the objects of a payload: with or without session_id and total_cost_usd
PayloadObjects ==
    {JsonObject(type, result, extra[1], extra[2]) :
        type \in {"result", "system"}, result \in ResultFields,
        extra \in {<< Some("engine"), Some(1) >>, << None, None >>}}

InitPayload ==
    /\ InitPipeline
    /\ \E stdout \in {NotJson} \cup {JsonOne(o) : o \in PayloadObjects}
                        \cup {JsonArray(es) : es \in SeqsUpTo(PayloadObjects, MaxPayloadEntries)} :
          call = [stdout |-> stdout, returned |-> None]

\* parse_claude_response(&stdout)
CallParseClaudeResponse ==
    /\ call.returned = None
    /\ call' = [call EXCEPT !.returned = Some(ParseClaudeResponse(call.stdout))]
    /\ UNCHANGED pipeline

NextPayload == CallParseClaudeResponse

SpecPayload == InitPayload /\ [][NextPayload]_vars

\* the entry is a result entry whose result is a non-empty string
ValidResultEntry(entry) ==
    entry.type = "result" /\ entry.result.kind = "string" /\ entry.result.text # ""

\* C40: reply payload selection: a single object with the three fields is
\* returned as it is; of an array the last entry that is a result entry with a
\* non-empty string result is returned, session id and cost defaulting to
\* empty and 0; an array without such an entry gives CommandFailed, and text
\* that is neither gives ParseError
C40_ReplyPayloadSelection ==
    IsSome(call.returned) =>
        LET r == Unwrap(call.returned)
            es == call.stdout.entries
            valid == {i \in 1..Len(es) : ValidResultEntry(es[i])}
        IN  /\ (call.stdout.kind = "object" /\ es[1].result.kind = "string"
                  /\ IsSome(es[1].session_id) /\ IsSome(es[1].total_cost_usd)) =>
                  /\ r.type = "Ok"
                  /\ Unwrap(r.response) = [result |-> es[1].result.text,
                                           session_id |-> Unwrap(es[1].session_id),
                                           total_cost_usd |-> Unwrap(es[1].total_cost_usd)]
            /\ (call.stdout.kind = "array" /\ valid # {}) =>
                  LET last == CHOOSE i \in valid : \A j \in valid : j <= i
                  IN  /\ r.type = "Ok"
                      /\ Unwrap(r.response).result = es[last].result.text
                      /\ Unwrap(r.response).session_id =
                            (IF IsSome(es[last].session_id) THEN Unwrap(es[last].session_id) ELSE "")
                      /\ Unwrap(r.response).total_cost_usd =
                            (IF IsSome(es[last].total_cost_usd)
                               THEN Unwrap(es[last].total_cost_usd) ELSE 0)
            /\ (call.stdout.kind = "array" /\ valid = {}) => r.type = "CommandFailed"
            /\ call.stdout.kind = "text" => r.type = "ParseError"

\* of two result entries the last one has an empty result: the first is returned
C40_Witness ==
    /\ IsSome(call.returned)
    /\ call.stdout = JsonArray(<< JsonObject("result", String("first"), Some("engine"), Some(1)),
                                  JsonObject("result", String(""), None, None) >>)
    /\ Unwrap(call.returned).type = "Ok"
    /\ Unwrap(Unwrap(call.returned).response).result = "first"

====
